---------------------------- MODULE Spec2Model ----------------------------
(***************************************************************************)
(* k8s_gateway: a CoreDNS plugin answering queries for configured zones    *)
(* from hostname-indexed informer caches of cluster objects.               *)
(*                                                                         *)
(* Strings that the program slices, splits, joins or lower-cases (domain   *)
(* names, index keys, TXT values) are sequences of one-character strings,  *)
(* so that every string operation is computed as the code computes it.     *)
(* Strings the program only copies or compares (IP texts, class names,     *)
(* object ids) are atomic.                                                 *)
(***************************************************************************)
EXTENDS Naturals, Sequences, FiniteSets, TLC

VARIABLES
    phase,            \* start-up position of the plugin: new / configured / started;
                      \* cancelled once the context given to RunKubeController is done
    cfg,              \* the configuration the plugin was loaded with
    Resources,        \* gw.Resources: the registry, a sequence of kind names
    staticLookup,     \* staticResources[k].lookup: "noop", "installed" (a closure
                      \* of this plugin's controller) or "peer" (a closure of the
                      \* controller of a second Gateway of the process)
    controllers,      \* ctrl.controllers: the informers the controller owns
    hasSynced,        \* ctrl.hasSynced
    runPc,            \* position of the goroutine KubeController.run
    informerSynced,   \* informers whose HasSynced reports true
    store,            \* informer caches: kind -> set of object ids
    resp,             \* the outcome of the query served last, or NoResp
    txtIn,            \* input of the TXT record builder
    txtOut,           \* TXT records built from txtIn, or NoTxt
    peer              \* a second Gateway made by newGateway in the same process, or
                      \* NoPeer

vars == <<phase, cfg, Resources, staticLookup, controllers, hasSynced, runPc,
          informerSynced, store, resp, txtIn, txtOut, peer>>

(***************************************************************************)
(* Bounds of the model.                                                    *)
(***************************************************************************)
MaxObjs == 2        \* objects held by all informer caches together
MaxStrLen == 515    \* longest TXT value given to split255
MaxTxtVals == 2     \* values in one TXT bundle list

(***************************************************************************)
(* Characters and strings.                                                 *)
(***************************************************************************)
UpperOf == [c \in {"a", "b", "k", "n", "o", "w", "z"} |->
              CASE c = "a" -> "A" [] c = "b" -> "B" [] c = "k" -> "K"
                [] c = "n" -> "N" [] c = "o" -> "O" [] c = "w" -> "W"
                [] c = "z" -> "Z"]

IsLetter(c) == c \in DOMAIN UpperOf

IsUpper(c) == \E l \in DOMAIN UpperOf : UpperOf[l] = c

ToLowerChar(c) == IF IsUpper(c) THEN CHOOSE l \in DOMAIN UpperOf : UpperOf[l] = c ELSE c

\* strings.ToLower
ToLower(s) == [i \in 1..Len(s) |-> ToLowerChar(s[i])]

\* s[from:] and s[:to] of Go, with 0-based offsets
Drop(s, n) == SubSeq(s, n + 1, Len(s))
Take(s, n) == SubSeq(s, 1, n)

\* strings.TrimSuffix(s, ".")
TrimSuffixDot(s) == IF Len(s) > 0 /\ s[Len(s)] = "." THEN Take(s, Len(s) - 1) ELSE s

\* position of the first sep of s at or after i, or 0
RECURSIVE IndexFrom(_, _, _)
IndexFrom(s, sep, i) ==
    IF i > Len(s) THEN 0
    ELSE IF s[i] = sep THEN i
    ELSE IndexFrom(s, sep, i + 1)

\* strings.Split(s, sep): never empty, Split("", sep) = [""]
RECURSIVE SplitOn(_, _)
SplitOn(s, sep) ==
    LET i == IndexFrom(s, sep, 1)
    IN  IF i = 0 THEN <<s>>
        ELSE <<Take(s, i - 1)>> \o SplitOn(Drop(s, i), sep)

Split(s) == SplitOn(s, ".")

\* strings.ReplaceAll(s, " ", "")
RemoveSpaces(s) == SelectSeq(s, LAMBDA c : c # " ")

\* strings.Join(parts, ".")
RECURSIVE Join(_)
Join(parts) ==
    IF Len(parts) = 0 THEN <<>>
    ELSE IF Len(parts) = 1 THEN parts[1]
    ELSE parts[1] \o <<".">> \o Join(Tail(parts))

\* all letter-case variants of a string
RECURSIVE CaseVariants(_)
CaseVariants(s) ==
    IF Len(s) = 0 THEN {<<>>}
    ELSE LET rest == CaseVariants(Tail(s))
             heads == IF IsLetter(s[1]) THEN {s[1], UpperOf[s[1]]} ELSE {s[1]}
         IN  {<<h>> \o r : h \in heads, r \in rest}

(***************************************************************************)
(* Domain names as the DNS library treats them.                            *)
(***************************************************************************)
Root == <<".">>

\* dns.SplitDomainName: the labels of a name, none for the root
Labels(name) == IF name = Root \/ name = <<>> THEN <<>> ELSE Split(TrimSuffixDot(name))

\* dns.IsSubDomain(parent, child): label-wise, letter case ignored
IsSubDomain(parent, child) ==
    LET under(p, c) == /\ Len(p) <= Len(c)
                       /\ SubSeq(c, Len(c) - Len(p) + 1, Len(c)) = p
    IN  under(Labels(ToLower(parent)), Labels(ToLower(child)))

\* plugin.Zones(zones).Matches(qname): the longest zone the name is under, or ""
RECURSIVE MatchesFrom(_, _, _, _)
MatchesFrom(zones, qname, i, zone) ==
    IF i > Len(zones) THEN zone
    ELSE IF IsSubDomain(zones[i], qname) /\ Len(zones[i]) > Len(zone)
         THEN MatchesFrom(zones, qname, i + 1, zones[i])
         ELSE MatchesFrom(zones, qname, i + 1, zone)

Matches(zones, qname) == MatchesFrom(zones, qname, 1, <<>>)

\* a faulty fall.F.Through, true of every name once a fallthrough zone is configured
FallThroughAnyName(fallZones, qname) == Len(fallZones) > 0

\* fall.F.Through(qname)
FallThrough(fallZones, qname) == Matches(fallZones, qname) # <<>>

\* a faulty request.Request.Name() that keeps the letter case of the question
StateNameAsSent(qname) == qname

\* request.Request.Name(): the question name, lower-cased
StateName(qname) == ToLower(qname)

(***************************************************************************)
(* Zone stripping and index keys.                                          *)
(***************************************************************************)
stripClosingDot(s) == IF Len(s) > 1 THEN TrimSuffixDot(s) ELSE s

stripDomain(qname, zone) == stripClosingDot(Take(qname, Len(qname) - Len(zone)))

getQueryIndexKeys(qName, zone) ==
    LET zonelessQuery == stripDomain(qName, zone)
        strippedQName == stripClosingDot(qName)
    IN  IF Len(zonelessQuery) # 0 /\ zonelessQuery # strippedQName
        THEN <<strippedQName, zonelessQuery>>
        ELSE <<strippedQName>>

toWildcardQName(qName, zone) ==
    LET zonelessQuery == stripDomain(qName, zone)
        parts == Split(zonelessQuery)
    IN  IF Len(parts) = 0 THEN <<>>
        ELSE Join(<<<<"*">>>> \o Tail(parts) \o <<zone>>)

\* a faulty getQueryIndexKeySets that puts the wildcard key set first
getQueryIndexKeySetsWildcardFirst(qName, zone) ==
    LET specificIndexKeys == getQueryIndexKeys(qName, zone)
        wildcardQName == toWildcardQName(qName, zone)
    IN  IF wildcardQName = <<>> THEN <<specificIndexKeys>>
        ELSE <<getQueryIndexKeys(wildcardQName, zone), specificIndexKeys>>

getQueryIndexKeySets(qName, zone) ==
    LET specificIndexKeys == getQueryIndexKeys(qName, zone)
        wildcardQName == toWildcardQName(qName, zone)
    IN  IF wildcardQName = <<>> THEN <<specificIndexKeys>>
        ELSE <<specificIndexKeys, getQueryIndexKeys(wildcardQName, zone)>>

(***************************************************************************)
(* Address bundles: Go's map[string][]string.  isNil tells a nil map from  *)
(* an allocated one, keys are the keys present, and a list reads as empty  *)
(* when its key is absent.  panicked marks a lookup that dereferenced a    *)
(* nil pointer.                                                            *)
(***************************************************************************)
RecordTypes == {"A", "AAAA", "TXT"}

NilBundle == [isNil |-> TRUE, keys |-> {}, A |-> <<>>, AAAA |-> <<>>, TXT |-> <<>>,
              panicked |-> FALSE]

\* make(map[string][]string, 0)
MakeBundle == [NilBundle EXCEPT !.isNil = FALSE]

PanicBundle == [NilBundle EXCEPT !.panicked = TRUE]

\* if m[k] == nil { m[k] = make([]string, 0) }; m[k] = append(m[k], vs...)
AppendTo(m, k, vs) ==
    [m EXCEPT !.isNil = FALSE, !.keys = @ \cup {k}, ![k] = @ \o vs]

IsEmptyBundle(m) == Len(m.A) = 0 /\ Len(m.AAAA) = 0 /\ Len(m.TXT) = 0

appenddnsResults(result, fetchedResults) ==
    AppendTo(AppendTo(AppendTo(result, "A", fetchedResults.A),
                      "AAAA", fetchedResults.AAAA),
             "TXT", fetchedResults.TXT)

(***************************************************************************)
(* IP texts.  netip.ParseAddr accepts the texts of IPv4Texts and of        *)
(* DOMAIN IPv6Canonical; Addr.String() prints an IPv6 address in its       *)
(* canonical form.  net.LookupIP answers from the table Resolver.          *)
(***************************************************************************)
IPv4Texts == {"10.0.0.1", "10.0.0.3", "10.0.1.1", "10.0.1.53", "10.0.2.1",
              "10.0.4.4", "10.0.9.9", "10.0.5.1", "10.0.5.2", "10.0.5.8", "10.0.5.9"}

IPv6Canonical == [t \in {"fd00::6", "FD00:0:0::1", "fd00::9", "fd00::5"} |->
                    IF t = "FD00:0:0::1" THEN "fd00::1" ELSE t]

ParseAddr(text) ==
    IF text \in IPv4Texts THEN [ok |-> TRUE, is4 |-> TRUE, is6 |-> FALSE, str |-> text]
    ELSE IF text \in DOMAIN IPv6Canonical
         THEN [ok |-> TRUE, is4 |-> FALSE, is6 |-> TRUE, str |-> IPv6Canonical[text]]
         ELSE [ok |-> FALSE, is4 |-> FALSE, is6 |-> FALSE, str |-> ""]

Resolver == [h \in {"lb.host"} |-> <<"10.0.9.9", "fd00::9">>]

LookupIP(host) ==
    IF host \in DOMAIN Resolver THEN [ok |-> TRUE, ips |-> Resolver[host]]
    ELSE [ok |-> FALSE, ips |-> <<>>]

\* netip.ParseAddr, then append to A when Is4 and to AAAA when Is6
AddAddr(results, text) ==
    LET add(addr) == IF ~addr.ok THEN results
                     ELSE IF addr.is4 THEN AppendTo(results, "A", <<addr.str>>)
                     ELSE IF addr.is6 THEN AppendTo(results, "AAAA", <<addr.str>>)
                     ELSE results
    IN  add(ParseAddr(text))

RECURSIVE AddAddrs(_, _)
AddAddrs(results, texts) ==
    IF Len(texts) = 0 THEN results
    ELSE AddAddrs(AddAddr(results, texts[1]), Tail(texts))

(***************************************************************************)
(* Cluster objects.  A pointer field is [set, val].                        *)
(***************************************************************************)
NilPtr == [set |-> FALSE, val |-> ""]
Ptr(v) == [set |-> TRUE, val |-> v]

Kinds == {"HTTPRoute", "TLSRoute", "GRPCRoute", "Ingress", "Service", "DNSEndpoint"}
InformerKinds == Kinds \cup {"Gateway"}

hostnameAnnotationKey == "coredns.io/hostname"
externalDnsHostnameAnnotationKey == "external-dns.alpha.kubernetes.io/hostname"

Objects ==
    [id \in {"ing_a", "ing_wild", "ing_apex", "svc_aw", "svc_a", "svc_nk",
             "rt_a", "gw1", "ep_a", "svc_ext", "svc_bad", "svc_np", "svc_inv",
             "svc_extdns", "rt_two", "rt_rev", "gw_o", "ep_up", "ep_multi", "ep_fam",
             "ing_nocls", "rt_nt", "gw_nt", "svc_azx", "ing_nohost"} |->
      CASE id = "ing_a" ->
             [kind |-> "Ingress", hosts |-> <<<<"a", ".", "z">>>>,
              class |-> Ptr("nginx"),
              lb |-> <<[hostname |-> "", ip |-> "10.0.0.1"]>>]
        [] id = "ing_wild" ->
             [kind |-> "Ingress",
              hosts |-> <<<<"*", ".", "z">>, <<"*", ".", "w", ".", "z">>>>,
              class |-> Ptr("nginx"),
              lb |-> <<[hostname |-> "", ip |-> "fd00::6"]>>]
        [] id = "ing_apex" ->
             [kind |-> "Ingress", hosts |-> <<<<"z">>>>,
              class |-> Ptr("traefik"),
              lb |-> <<[hostname |-> "", ip |-> "10.0.0.3"]>>]
        [] id = "svc_aw" ->
             [kind |-> "Service", name |-> <<"a">>, namespace |-> <<"w">>,
              type |-> "LoadBalancer", annotations |-> <<>>,
              externalIPs |-> <<>>,
              lb |-> <<[hostname |-> "", ip |-> "10.0.1.1"],
                       [hostname |-> "", ip |-> "FD00:0:0::1"]>>]
        [] id = "svc_a" ->
             [kind |-> "Service", name |-> <<"b">>, namespace |-> <<"w">>,
              type |-> "LoadBalancer",
              annotations |-> <<[key |-> hostnameAnnotationKey,
                                 val |-> <<"A", ".", "z">>]>>,
              externalIPs |-> <<>>,
              lb |-> <<[hostname |-> "lb.host", ip |-> ""]>>]
        [] id = "svc_nk" ->
             [kind |-> "Service", name |-> <<"n">>, namespace |-> <<"k">>,
              type |-> "LoadBalancer", annotations |-> <<>>,
              externalIPs |-> <<>>,
              lb |-> <<[hostname |-> "", ip |-> "10.0.1.53"]>>]
        [] id = "rt_a" ->
             [kind |-> "HTTPRoute", namespace |-> "default",
              hostnames |-> <<<<"a", ".", "z">>>>,
              parentRefs |-> <<[namespace |-> NilPtr, name |-> "gw1"]>>]
        [] id = "gw1" ->
             [kind |-> "Gateway", namespace |-> "default", name |-> "gw1",
              class |-> "istio",
              addresses |-> <<[type |-> Ptr("IPAddress"), value |-> "10.0.2.1"]>>]
        [] id = "ep_a" ->
             [kind |-> "DNSEndpoint",
              endpoints |-> <<[dnsName |-> <<"a", ".", "z">>, recordType |-> "A",
                               targets |-> <<"10.0.4.4">>],
                              [dnsName |-> <<"a", ".", "z">>, recordType |-> "TXT",
                               targets |-> <<<<"c", "h">>>>]>>]
        [] id = "svc_ext" ->
             [kind |-> "Service", name |-> <<"o">>, namespace |-> <<"w">>,
              type |-> "LoadBalancer", annotations |-> <<>>,
              externalIPs |-> <<"10.0.5.1", "bogus", "fd00::5">>,
              lb |-> <<[hostname |-> "", ip |-> "10.0.5.9"]>>]
        [] id = "svc_bad" ->
             [kind |-> "Service", name |-> <<"b">>, namespace |-> <<"k">>,
              type |-> "LoadBalancer", annotations |-> <<>>,
              externalIPs |-> <<"bogus">>,
              lb |-> <<[hostname |-> "", ip |-> "10.0.5.8"]>>]
        [] id = "svc_np" ->
             [kind |-> "Service", name |-> <<"o">>, namespace |-> <<"k">>,
              type |-> "NodePort", annotations |-> <<>>,
              externalIPs |-> <<>>,
              lb |-> <<[hostname |-> "", ip |-> "10.0.5.2"]>>]
        [] id = "svc_inv" ->
             [kind |-> "Service", name |-> <<"k">>, namespace |-> <<"w">>,
              type |-> "LoadBalancer",
              annotations |-> <<[key |-> hostnameAnnotationKey,
                                 val |-> <<"a", "_", ".", "z">>],
                                [key |-> externalDnsHostnameAnnotationKey,
                                 val |-> <<"b", ".", "z">>]>>,
              externalIPs |-> <<>>,
              lb |-> <<[hostname |-> "", ip |-> "10.0.5.8"]>>]
        [] id = "svc_extdns" ->
             [kind |-> "Service", name |-> <<"n">>, namespace |-> <<"w">>,
              type |-> "LoadBalancer",
              annotations |-> <<[key |-> externalDnsHostnameAnnotationKey,
                                 val |-> <<"A", ".", "z", ",", " ", "-", "b", ".", "z",
                                           ",", "o", ".", "z">>]>>,
              externalIPs |-> <<>>,
              lb |-> <<[hostname |-> "", ip |-> "10.0.5.9"]>>]
        [] id = "rt_two" ->
             [kind |-> "HTTPRoute", namespace |-> "default",
              hostnames |-> <<<<"b", ".", "z">>>>,
              parentRefs |-> <<[namespace |-> Ptr("other"), name |-> "gwo"],
                               [namespace |-> NilPtr, name |-> "gw1"]>>]
        [] id = "rt_rev" ->
             [kind |-> "HTTPRoute", namespace |-> "default",
              hostnames |-> <<<<"o", ".", "z">>>>,
              parentRefs |-> <<[namespace |-> NilPtr, name |-> "gw1"],
                               [namespace |-> Ptr("other"), name |-> "gwo"]>>]
        [] id = "gw_o" ->
             [kind |-> "Gateway", namespace |-> "other", name |-> "gwo",
              class |-> "istio",
              addresses |-> <<[type |-> Ptr("IPAddress"), value |-> "10.0.5.2"]>>]
        [] id = "ep_up" ->
             [kind |-> "DNSEndpoint",
              endpoints |-> <<[dnsName |-> <<"B", ".", "z">>, recordType |-> "A",
                               targets |-> <<"10.0.5.1">>]>>]
        [] id = "ep_multi" ->
             [kind |-> "DNSEndpoint",
              endpoints |-> <<[dnsName |-> <<"o", ".", "z">>, recordType |-> "CNAME",
                               targets |-> <<"lb.host">>],
                              [dnsName |-> <<"o", ".", "z">>, recordType |-> "A",
                               targets |-> <<"10.0.5.2", "bogus">>],
                              [dnsName |-> <<"a", ".", "z">>, recordType |-> "AAAA",
                               targets |-> <<"fd00::6">>],
                              [dnsName |-> <<"a", ".", "z">>, recordType |-> "TXT",
                               targets |-> <<<<"c", "h">>>>]>>]
        [] id = "ep_fam" ->
             [kind |-> "DNSEndpoint",
              endpoints |-> <<[dnsName |-> <<"b", ".", "z">>, recordType |-> "A",
                               targets |-> <<"fd00::5", "10.0.5.8">>]>>]
        [] id = "ing_nocls" ->
             [kind |-> "Ingress", hosts |-> <<<<"a", ".", "z">>>>,
              class |-> NilPtr,
              lb |-> <<[hostname |-> "", ip |-> "10.0.5.1"]>>]
        [] id = "rt_nt" ->
             [kind |-> "HTTPRoute", namespace |-> "default",
              hostnames |-> <<<<"o", ".", "z">>>>,
              parentRefs |-> <<[namespace |-> NilPtr, name |-> "gwn"]>>]
        [] id = "gw_nt" ->
             [kind |-> "Gateway", namespace |-> "default", name |-> "gwn",
              class |-> "istio",
              addresses |-> <<[type |-> NilPtr, value |-> "10.0.5.2"],
                              [type |-> Ptr("IPAddress"), value |-> "10.0.5.8"]>>]
        [] id = "svc_azx" ->
             [kind |-> "Service", name |-> <<"k">>, namespace |-> <<"n">>,
              type |-> "LoadBalancer",
              annotations |-> <<[key |-> hostnameAnnotationKey,
                                 val |-> <<"a", ".", "z">>]>>,
              externalIPs |-> <<"10.0.5.8">>,
              lb |-> <<[hostname |-> "", ip |-> "10.0.5.2"]>>]
        [] id = "ing_nohost" ->
             [kind |-> "Ingress", hosts |-> <<<<>>>>,
              class |-> Ptr("nginx"),
              lb |-> <<[hostname |-> "", ip |-> "10.0.5.9"]>>]]

ObjIds == DOMAIN Objects

\* a fixed enumeration of the objects, the order in which an index lists them
ObjOrder == <<"ing_a", "ing_wild", "ing_apex", "svc_aw", "svc_azx", "svc_a", "svc_nk",
              "rt_a", "gw1", "ep_a", "svc_ext", "svc_bad", "svc_np", "svc_inv",
              "svc_extdns", "rt_two", "rt_rev", "gw_o", "ep_up", "ep_multi", "ep_fam",
              "ing_nocls", "rt_nt", "gw_nt", "ing_nohost">>

\* the objects of the cluster the responder is exercised against
ClusterObjs == {"ing_a", "ing_wild", "ing_apex", "svc_aw", "svc_a", "svc_nk",
                "rt_a", "gw1", "ep_a"}

\* the objects of the cluster the index functions and lookups are exercised against
IndexObjs == {"svc_a", "svc_ext", "svc_bad", "svc_np", "svc_inv", "svc_extdns",
              "rt_two", "rt_rev", "gw1", "gw_o", "ep_up",
              "ep_multi", "ep_fam", "svc_azx"}

IdsOfKind(k) == {id \in ObjIds : Objects[id].kind = k}

(***************************************************************************)
(* Index functions: the keys under which an informer files an object.      *)
(***************************************************************************)
Range(seq) == {seq[i] : i \in 1..Len(seq)}

LowerAlnum == {"a", "b", "k", "n", "o", "w", "z", "0", "1"}

\* one label of dns1123ValueFmt: [a-z0-9]([-a-z0-9]*[a-z0-9])?
IsDns1123Label(l) ==
    /\ Len(l) > 0
    /\ l[1] \in LowerAlnum
    /\ l[Len(l)] \in LowerAlnum
    /\ \A i \in 1..Len(l) : l[i] \in LowerAlnum \cup {"-"}

isdns1123Hostname(value) == \A l \in Range(Split(value)) : IsDns1123Label(l)

\* dns.IsDomainName holds of every name this short; the RFC 1123 check decides
checkDomainValid(domain) == isdns1123Hostname(domain)

checkServiceAnnotation(annotation, service) ==
    LET hits == SelectSeq(service.annotations, LAMBDA a : a.key = annotation)
    IN  IF Len(hits) > 0 THEN [exists |-> TRUE, val |-> ToLower(hits[1].val)]
        ELSE [exists |-> FALSE, val |-> <<>>]

splitHostnameAnnotation(annotation) == SplitOn(RemoveSpaces(annotation), ",")

gatewayIndexFunc(obj) == <<<<obj.namespace, obj.name>>>>

routeHostnameIndexFunc(obj) == obj.hostnames

ingressHostnameIndexFunc(obj) == obj.hosts

serviceHostnameIndexFunc(service) ==
    LET keys(a1, a2) ==
            IF a1.exists
            THEN SelectSeq(<<a1.val>>, checkDomainValid)
            ELSE IF a2.exists
            THEN SelectSeq(splitHostnameAnnotation(a2.val), checkDomainValid)
            ELSE <<service.name \o <<".">> \o service.namespace>>
    IN  IF service.type # "LoadBalancer" THEN <<>>
        ELSE keys(checkServiceAnnotation(hostnameAnnotationKey, service),
                  checkServiceAnnotation(externalDnsHostnameAnnotationKey, service))

dnsEndpointTargetIndexFunc(obj) ==
    [i \in 1..Len(obj.endpoints) |-> obj.endpoints[i].dnsName]

IndexFunc(obj) ==
    CASE obj.kind = "Gateway" -> gatewayIndexFunc(obj)
      [] obj.kind \in {"HTTPRoute", "TLSRoute", "GRPCRoute"} -> routeHostnameIndexFunc(obj)
      [] obj.kind = "Ingress" -> ingressHostnameIndexFunc(obj)
      [] obj.kind = "Service" -> serviceHostnameIndexFunc(obj)
      [] obj.kind = "DNSEndpoint" -> dnsEndpointTargetIndexFunc(obj)

\* GetIndexer().ByIndex(index, key): the cached objects filed under exactly key
ByIndex(kind, key) ==
    SelectSeq(ObjOrder, LAMBDA id : /\ id \in store[kind]
                                    /\ key \in Range(IndexFunc(Objects[id])))

\* for _, key := range indexKeys { objs = append(objs, ByIndex(ToLower(key))...) }
RECURSIVE MatchedObjs(_, _)
MatchedObjs(kind, indexKeys) ==
    IF Len(indexKeys) = 0 THEN <<>>
    ELSE ByIndex(kind, ToLower(indexKeys[1])) \o MatchedObjs(kind, Tail(indexKeys))

(***************************************************************************)
(* Address extractors.                                                     *)
(***************************************************************************)
\* fetchServiceLoadBalancerIPs and fetchIngressLoadBalancerIPs: the same code
RECURSIVE FetchLoadBalancerFrom(_, _)
FetchLoadBalancerFrom(results, ingresses) ==
    IF Len(ingresses) = 0 THEN results
    ELSE LET address == ingresses[1]
             resolved(ips) == IF ips.ok THEN AddAddrs(results, ips.ips) ELSE results
         IN  FetchLoadBalancerFrom(
                 IF address.hostname # "" THEN resolved(LookupIP(address.hostname))
                 ELSE IF address.ip # "" THEN AddAddr(results, address.ip)
                 ELSE results,
                 Tail(ingresses))

fetchServiceLoadBalancerIPs(ingresses) == FetchLoadBalancerFrom(MakeBundle, ingresses)

fetchIngressLoadBalancerIPs(ingresses) == FetchLoadBalancerFrom(MakeBundle, ingresses)

\* fetchGatewayIPs: *addr.Type is dereferenced unchecked
RECURSIVE FetchGatewayFrom(_, _)
FetchGatewayFrom(results, addresses) ==
    IF Len(addresses) = 0 THEN results
    ELSE LET addr == addresses[1]
             resolved(ips) == IF ips.ok THEN AddAddrs(results, ips.ips) ELSE results
         IN  IF ~addr.type.set THEN PanicBundle
             ELSE FetchGatewayFrom(
                      IF addr.type.val = "IPAddress" THEN AddAddr(results, addr.value)
                      ELSE IF addr.type.val = "Hostname" THEN resolved(LookupIP(addr.value))
                      ELSE results,
                      Tail(addresses))

fetchGatewayIPs(gw) == FetchGatewayFrom(MakeBundle, gw.addresses)

(***************************************************************************)
(* Per-kind lookup closures.                                               *)
(***************************************************************************)
Contains(seq, v) == v \in Range(seq)

RECURSIVE ServiceLoop(_, _)
ServiceLoop(result, objs) ==
    IF Len(objs) = 0 THEN result
    ELSE LET visit(service) ==
                 IF Len(service.externalIPs) > 0
                 \* externalIPs defined: the status field is ignored, and the closure returns
                 THEN AddAddrs(result, service.externalIPs)
                 ELSE ServiceLoop(
                          appenddnsResults(result, fetchServiceLoadBalancerIPs(service.lb)),
                          Tail(objs))
         IN  visit(Objects[objs[1]])

\* a faulty lookupServiceIndex that turns to the status field when no externalIP
\* yields an address
lookupServiceIndexStatusFallback(indexKeys) ==
    LET fallback(objs, result) ==
            IF Len(objs) > 0 /\ IsEmptyBundle(result)
            THEN fetchServiceLoadBalancerIPs(Objects[objs[1]].lb)
            ELSE result
    IN  fallback(MatchedObjs("Service", indexKeys),
                 ServiceLoop(MakeBundle, MatchedObjs("Service", indexKeys)))

lookupServiceIndex(indexKeys) ==
    ServiceLoop(MakeBundle, MatchedObjs("Service", indexKeys))

RECURSIVE GatewayObjLoop(_, _, _)
GatewayObjLoop(result, gwObjs, gwclasses) ==
    IF Len(gwObjs) = 0 THEN result
    ELSE LET appended(fetchedResults) ==
                 IF fetchedResults.panicked THEN PanicBundle
                 ELSE GatewayObjLoop(appenddnsResults(result, fetchedResults),
                                     Tail(gwObjs), gwclasses)
             visit(gw) ==
                 IF Len(gwclasses) > 0 /\ ~Contains(gwclasses, gw.class)
                 THEN GatewayObjLoop(result, Tail(gwObjs), gwclasses)
                 ELSE appended(fetchGatewayIPs(gw))
         IN  visit(Objects[gwObjs[1]])

\* ns is assigned inside the loop and keeps its value for the following refs
RECURSIVE GatewayRefLoop(_, _, _, _)
GatewayRefLoop(result, refs, ns, gwclasses) ==
    IF Len(refs) = 0 \/ result.panicked THEN result
    ELSE LET gwRef == refs[1]
             ns2 == IF gwRef.namespace.set THEN gwRef.namespace.val ELSE ns
         IN  GatewayRefLoop(
                 GatewayObjLoop(result, ByIndex("Gateway", <<ns2, gwRef.name>>), gwclasses),
                 Tail(refs), ns2, gwclasses)

lookupGateways(refs, ns, gwclasses) == GatewayRefLoop(NilBundle, refs, ns, gwclasses)

RECURSIVE RouteLoop(_, _, _)
RouteLoop(result, objs, gwclasses) ==
    IF Len(objs) = 0 THEN result
    ELSE LET appended(fetchedResults) ==
                 IF fetchedResults.panicked THEN PanicBundle
                 ELSE RouteLoop(appenddnsResults(result, fetchedResults), Tail(objs),
                                gwclasses)
             visit(route) ==
                 appended(lookupGateways(route.parentRefs, route.namespace, gwclasses))
         IN  visit(Objects[objs[1]])

lookupHttpRouteIndex(indexKeys) ==
    RouteLoop(NilBundle, MatchedObjs("HTTPRoute", indexKeys), cfg.gatewayClasses)

lookupTLSRouteIndex(indexKeys) ==
    RouteLoop(NilBundle, MatchedObjs("TLSRoute", indexKeys), cfg.gatewayClasses)

lookupGRPCRouteIndex(indexKeys) ==
    RouteLoop(NilBundle, MatchedObjs("GRPCRoute", indexKeys), cfg.gatewayClasses)

\* *ingress.Spec.IngressClassName is dereferenced unchecked when a filter is set
RECURSIVE IngressLoop(_, _, _)
IngressLoop(result, objs, ingclasses) ==
    IF Len(objs) = 0 THEN result
    ELSE LET visit(ingress) ==
                 IF Len(ingclasses) > 0 /\ ~ingress.class.set THEN PanicBundle
                 ELSE IF Len(ingclasses) > 0 /\ ~Contains(ingclasses, ingress.class.val)
                 THEN IngressLoop(result, Tail(objs), ingclasses)
                 ELSE IngressLoop(
                          appenddnsResults(result, fetchIngressLoadBalancerIPs(ingress.lb)),
                          Tail(objs), ingclasses)
         IN  visit(Objects[objs[1]])

lookupIngressIndex(indexKeys) ==
    IngressLoop(NilBundle, MatchedObjs("Ingress", indexKeys), cfg.ingressClasses)

\* one target of one endpoint of a matched DNSEndpoint
EndpointTarget(result, recordType, target) ==
    IF recordType \in {"A", "AAAA"}
    THEN LET add(addr) ==
                 IF addr.ok THEN AppendTo(result, recordType, <<addr.str>>) ELSE result
         IN  add(ParseAddr(target))
    ELSE IF recordType = "TXT" THEN AppendTo(result, "TXT", <<target>>)
    ELSE result

RECURSIVE EndpointTargets(_, _, _)
EndpointTargets(result, recordType, targets) ==
    IF Len(targets) = 0 THEN result
    ELSE EndpointTargets(EndpointTarget(result, recordType, targets[1]),
                         recordType, Tail(targets))

RECURSIVE EndpointLoop(_, _)
EndpointLoop(result, endpoints) ==
    IF Len(endpoints) = 0 THEN result
    ELSE EndpointLoop(
             EndpointTargets(result, endpoints[1].recordType, endpoints[1].targets),
             Tail(endpoints))

RECURSIVE DNSEndpointLoop(_, _)
DNSEndpointLoop(result, objs) ==
    IF Len(objs) = 0 THEN result
    ELSE DNSEndpointLoop(EndpointLoop(result, Objects[objs[1]].endpoints), Tail(objs))

lookupDNSEndpoint(indexKeys) ==
    DNSEndpointLoop(MakeBundle, MatchedObjs("DNSEndpoint", indexKeys))

\* var noop lookupFunc = func([]string) (result map[string][]string) { return }
noop(indexKeys) == NilBundle

\* resource.lookup(indexKeys) of the registry entry named kind
Lookup(kind, indexKeys) ==
    IF staticLookup[kind] = "noop" THEN noop(indexKeys)
    \* a closure over the informers of the second Gateway, whose caches are empty:
    \* what the closure returns when no object matches
    ELSE IF staticLookup[kind] = "peer"
    THEN IF kind \in {"Service", "DNSEndpoint"} THEN MakeBundle ELSE NilBundle
    ELSE CASE kind = "HTTPRoute" -> lookupHttpRouteIndex(indexKeys)
           [] kind = "TLSRoute" -> lookupTLSRouteIndex(indexKeys)
           [] kind = "GRPCRoute" -> lookupGRPCRouteIndex(indexKeys)
           [] kind = "Ingress" -> lookupIngressIndex(indexKeys)
           [] kind = "Service" -> lookupServiceIndex(indexKeys)
           [] kind = "DNSEndpoint" -> lookupDNSEndpoint(indexKeys)

(***************************************************************************)
(* The query engine.                                                       *)
(***************************************************************************)
\* a faulty normalisation that makes the A list alone
EnsureKeysOnlyA(addrs) == AppendTo(addrs, "A", <<>>)

\* if addrs == nil { make }; if addrs[k] == nil { addrs[k] = make([]string, 0) }
EnsureKeys(addrs) == AppendTo(AppendTo(AppendTo(addrs, "A", <<>>), "AAAA", <<>>), "TXT", <<>>)

\* a faulty stop condition that looks at the A list alone
HasRecordsOfTypeA(addrs) == Len(addrs.A) > 0

\* the three returns of getMatchingAddresses: some list of addrs is not empty
HasRecords(addrs) == Len(addrs.A) > 0 \/ Len(addrs.AAAA) > 0 \/ Len(addrs.TXT) > 0

\* The two nested loops of getMatchingAddresses, at key set i and registry
\* position j.  calls lists the lookups invoked so far, each with its result.
RECURSIVE Probe(_, _, _, _)
Probe(indexKeySets, i, j, calls) ==
    IF i > Len(indexKeySets) THEN [addrs |-> NilBundle, calls |-> calls]
    ELSE IF j > Len(Resources) THEN Probe(indexKeySets, i + 1, 1, calls)
    ELSE LET call(out) == [set |-> i, pos |-> j, kind |-> Resources[j],
                           keys |-> indexKeySets[i], out |-> out]
             checked(addrs) ==
                 IF HasRecords(addrs)
                 THEN [addrs |-> addrs, calls |-> Append(calls, call(addrs))]
                 ELSE Probe(indexKeySets, i, j + 1, Append(calls, call(addrs)))
             looked(raw) ==
                 IF raw.panicked
                 THEN [addrs |-> PanicBundle, calls |-> Append(calls, call(raw))]
                 ELSE checked(EnsureKeys(raw))
         IN  looked(Lookup(Resources[j], indexKeySets[i]))

getMatchingAddresses(indexKeySets) == Probe(indexKeySets, 1, 1, <<>>)

(***************************************************************************)
(* Resource records.                                                       *)
(***************************************************************************)
ttlDefault == 60
ttlSOA == 60
ChunkLen == 255

\* the values of results, each once, in first-seen order
RECURSIVE Dedup(_, _)
Dedup(results, seen) ==
    IF Len(results) = 0 THEN <<>>
    ELSE IF results[1] \in seen THEN Dedup(Tail(results), seen)
    ELSE <<results[1]>> \o Dedup(Tail(results), seen \cup {results[1]})

RR(name, rrtype, ttl, data) == [name |-> name, rrtype |-> rrtype, ttl |-> ttl, data |-> data]

\* the loop of split255, with p and i as in the code
RECURSIVE Split255Loop(_, _, _, _)
Split255Loop(s, p, i, sx) ==
    IF i > Len(s) THEN Append(sx, SubSeq(s, p + 1, Len(s)))
    ELSE Split255Loop(s, p + ChunkLen, i + ChunkLen, Append(sx, SubSeq(s, p + 1, i)))

\* a faulty split255 that never splits
split255Whole(s) == <<s>>

split255(s) == IF Len(s) < ChunkLen THEN <<s>> ELSE Split255Loop(s, 0, ChunkLen, <<>>)

RecordsA(name, results) ==
    LET d == Dedup(results, {})
    IN  [i \in 1..Len(d) |-> RR(name, "A", cfg.ttlLow, d[i])]

RecordsAAAA(name, results) ==
    LET d == Dedup(results, {})
    IN  [i \in 1..Len(d) |-> RR(name, "AAAA", cfg.ttlLow, d[i])]

RecordsTXT(name, results) ==
    LET d == Dedup(results, {})
    IN  [i \in 1..Len(d) |-> RR(name, "TXT", cfg.ttlLow, split255(d[i]))]

\* gw.soa(state): the SOA of the zone as the query spelled it (state.Zone)
soa(zone) ==
    RR(zone, "SOA", cfg.ttlSOA,
       [ns |-> cfg.apex \o <<".">> \o zone,
        mbox |-> cfg.hostmaster \o <<".">> \o zone,
        serial |-> 1499347823, refresh |-> 7200, retry |-> 1800,
        expire |-> 86400, minttl |-> 5])

\* gw.nameservers(state): NS of the apex label, and of the second NS label if set
nameservers(zone) ==
    <<RR(zone, "NS", cfg.ttlSOA, cfg.apex \o <<".">> \o zone)>>
    \o (IF cfg.secondNS # <<>>
        THEN <<RR(zone, "NS", cfg.ttlSOA, cfg.secondNS \o <<".">> \o zone)>>
        ELSE <<>>)

\* the loop of SelfAddress over gw.Resources: addrs1 from the apex label,
\* addrs2 from the second NS label
RECURSIVE SelfLoop(_, _, _, _)
SelfLoop(j, addrs1, addrs2, panicked) ==
    IF j > Len(Resources) \/ panicked
    THEN [addrs1 |-> addrs1, addrs2 |-> addrs2, panicked |-> panicked]
    ELSE LET collected(r) ==
                 SelfLoop(j + 1, addrs1 \o r[1].A \o r[1].AAAA,
                          addrs2 \o r[2].A \o r[2].AAAA,
                          r[1].panicked \/ r[2].panicked)
         IN  collected([n \in {1, 2} |->
                          Lookup(Resources[j],
                                 <<IF n = 1 THEN cfg.apex ELSE cfg.secondNS>>)])

SelfAddress(zone, qtype) ==
    LET built(l) ==
            [panicked |-> l.panicked,
             records |-> RecordsA(cfg.apex \o <<".">> \o zone, l.addrs1)
                         \o (IF qtype = "NS"
                             THEN RecordsA(cfg.secondNS \o <<".">> \o zone, l.addrs2)
                             ELSE <<>>)]
    IN  built(SelfLoop(1, <<>>, <<>>, FALSE))

\* gw.ExternalAddrFunc, set to gw.SelfAddress
ExternalAddrFunc(zone, qtype) == SelfAddress(zone, qtype)

SetTtl(rrs, ttl) == [i \in 1..Len(rrs) |-> [rrs[i] EXCEPT !.ttl = ttl]]

(***************************************************************************)
(* The responder.  An outcome records what one call of ServeDNS did:       *)
(*   kind    "next"     the next handler was invoked (plugin.NextOrFailure) *)
(*           "servfail" SERVFAIL returned with an error, nothing written   *)
(*           "reply"    a message was written with w.WriteMsg              *)
(*           "panic"    a lookup dereferenced a nil pointer                *)
(*   path    the branch of ServeDNS that produced it                       *)
(*   calls   the lookups getMatchingAddresses invoked, in order            *)
(*   addrs   the bundle getMatchingAddresses returned                      *)
(***************************************************************************)
NoMsg == [rcode |-> "NONE", Answer |-> <<>>, Ns |-> <<>>, Extra |-> <<>>,
          Authoritative |-> FALSE]

\* m := new(dns.Msg); m.SetReply(state.Req)
NewReply == [NoMsg EXCEPT !.rcode = "NOERROR"]

Outcome(qname, qtype, kind, path, zone, apex, msg, engine) ==
    [qname |-> qname, qtype |-> qtype, kind |-> kind, path |-> path, zone |-> zone,
     isRootZoneQuery |-> apex, msg |-> msg, calls |-> engine.calls,
     addrs |-> engine.addrs]

NoEngine == [addrs |-> NilBundle, calls |-> <<>>]

\* the loop of ServeDNS over gw.Zones: apex, sub-apex, or neither
RECURSIVE ZoneLoop(_, _)
ZoneLoop(i, name) ==
    IF i > Len(cfg.zones) THEN "none"
    ELSE IF name = cfg.zones[i] THEN "apex"
    ELSE IF IsSubDomain(cfg.apex \o <<".">> \o cfg.zones[i], name) THEN "subapex"
    ELSE ZoneLoop(i + 1, name)

\* dnsutil.TrimZone(state.Name(), state.Zone): the name without the zone's labels
TrimZone(name, zone) ==
    LET n == Labels(name)
        k == Len(n) - Len(Labels(zone))
    IN  Join(SubSeq(n, 1, k))

\* gw.serveSubApex(state): the plugin's own addresses for the apex label
serveSubApex(qname, qtype, zone) ==
    LET written(m) ==
            Outcome(qname, qtype, "reply", "subapex", zone, FALSE,
                    [m EXCEPT !.Authoritative = TRUE], NoEngine)
        answered(own) ==
            IF Len(own) = 0 THEN written([NewReply EXCEPT !.Ns = <<soa(zone)>>])
            ELSE written([NewReply EXCEPT
                            !.Answer = [i \in 1..Len(own) |->
                                          [own[i] EXCEPT !.name = qname]]])
        addressed(self) ==
            IF self.panicked
            THEN Outcome(qname, qtype, "panic", "subapex", zone, FALSE, NoMsg, NoEngine)
            ELSE answered(SelectSeq(SetTtl(self.records, cfg.ttlSOA),
                                    LAMBDA rr : rr.rrtype = qtype))
    IN  IF TrimZone(StateName(qname), zone) # cfg.apex
        THEN written([NewReply EXCEPT !.rcode = "NXDOMAIN", !.Ns = <<soa(zone)>>])
        ELSE addressed(ExternalAddrFunc(zone, qtype))

\* the switch of ServeDNS on state.QType()
ReplySwitch(qname, qtype, zone, isRootZoneQuery, addrs, extra) ==
    LET name == StateName(qname)
        nx == IF isRootZoneQuery THEN "NOERROR" ELSE "NXDOMAIN"
    IN  CASE qtype = "A" ->
               IF Len(addrs.A) = 0
               THEN [NewReply EXCEPT !.rcode = nx, !.Ns = <<soa(zone)>>]
               ELSE [NewReply EXCEPT !.Answer = RecordsA(name, addrs.A)]
          [] qtype = "AAAA" ->
               IF Len(addrs.AAAA) = 0
               THEN [NewReply EXCEPT
                       !.rcode = IF Len(addrs.A) > 0 THEN "NOERROR" ELSE nx,
                       !.Ns = <<soa(zone)>>]
               ELSE [NewReply EXCEPT !.Answer = RecordsAAAA(name, addrs.AAAA)]
          [] qtype = "TXT" ->
               IF Len(addrs.TXT) = 0
               THEN [NewReply EXCEPT !.rcode = nx, !.Ns = <<soa(zone)>>]
               ELSE [NewReply EXCEPT !.Answer = RecordsTXT(name, addrs.TXT)]
          [] qtype = "SOA" -> [NewReply EXCEPT !.Answer = <<soa(zone)>>]
          [] qtype = "NS" ->
               IF isRootZoneQuery
               THEN [NewReply EXCEPT !.Answer = nameservers(zone),
                                     !.Extra = SetTtl(extra, cfg.ttlSOA)]
               ELSE [NewReply EXCEPT !.Ns = <<soa(zone)>>]
          [] OTHER -> [NewReply EXCEPT !.Ns = <<soa(zone)>>]

\* a faulty BuildReply that leaves the Authoritative flag as SetReply set it
BuildReplyUnflagged(qname, qtype, zone, isRootZoneQuery, addrs, extra) ==
    ReplySwitch(qname, qtype, zone, isRootZoneQuery, addrs, extra)

\* a faulty BuildReply that treats the apex like every other name
BuildReplyNoApex(qname, qtype, zone, isRootZoneQuery, addrs, extra) ==
    [ReplySwitch(qname, qtype, zone, FALSE, addrs, extra) EXCEPT !.Authoritative = TRUE]

\* a faulty BuildReply without the RFC 4074 case of an AAAA query
BuildReplyNoRfc4074(qname, qtype, zone, isRootZoneQuery, addrs, extra) ==
    [ReplySwitch(qname, qtype, zone, isRootZoneQuery,
                 IF qtype = "AAAA" /\ Len(addrs.AAAA) = 0 THEN MakeBundle ELSE addrs,
                 extra)
       EXCEPT !.Authoritative = TRUE]

\* a faulty BuildReply that answers NXDOMAIN whenever a name away from the apex has
\* no address, whatever the query type
BuildReplyNxdomainAnyType(qname, qtype, zone, isRootZoneQuery, addrs, extra) ==
    [ReplySwitch(qname, qtype, zone, isRootZoneQuery, addrs, extra)
       EXCEPT !.Authoritative = TRUE,
              !.rcode = IF IsEmptyBundle(addrs) /\ ~isRootZoneQuery THEN "NXDOMAIN" ELSE @]

\* a faulty BuildReply that leaves the records of ExternalAddrFunc as they came
BuildReplyExtraAsBuilt(qname, qtype, zone, isRootZoneQuery, addrs, extra) ==
    [ReplySwitch(qname, qtype, zone, isRootZoneQuery, addrs, extra)
       EXCEPT !.Authoritative = TRUE,
              !.Extra = IF qtype = "NS" /\ isRootZoneQuery THEN extra ELSE @]

\* the message ServeDNS hands to w.WriteMsg: the switch, then m.Authoritative = true
BuildReply(qname, qtype, zone, isRootZoneQuery, addrs, extra) ==
    [ReplySwitch(qname, qtype, zone, isRootZoneQuery, addrs, extra)
       EXCEPT !.Authoritative = TRUE]

\* ServeDNS after the sync gate, for a name that is not a sub-apex name
ServeEngine(qname, qtype, zone, isRootZoneQuery, indexKeySets) ==
    LET done(kind, path, msg, engine) ==
            Outcome(qname, qtype, kind, path, zone, isRootZoneQuery, msg, engine)
        replied(engine, self) ==
            IF self.panicked THEN done("panic", "engine", NoMsg, engine)
            ELSE done("reply", "engine",
                      BuildReply(qname, qtype, zone, isRootZoneQuery, engine.addrs,
                                 self.records),
                      engine)
        matched(engine) ==
            IF engine.addrs.panicked THEN done("panic", "engine", NoMsg, engine)
            ELSE IF IsEmptyBundle(engine.addrs) /\ FallThrough(cfg.fall, qname)
            THEN done("next", "fallthrough", NoMsg, engine)
            ELSE replied(engine,
                         IF qtype = "NS" /\ isRootZoneQuery
                         THEN ExternalAddrFunc(zone, qtype)
                         ELSE [panicked |-> FALSE, records |-> <<>>])
    IN  matched(getMatchingAddresses(indexKeySets))

\* a faulty ServeInZone that never asks the controller whether it has synced
ServeInZoneUngated(qname, qtype, zone, indexKeySets) ==
    IF ZoneLoop(1, StateName(qname)) = "subapex" THEN serveSubApex(qname, qtype, zone)
    ELSE ServeEngine(qname, qtype, zone, ZoneLoop(1, StateName(qname)) = "apex",
                     indexKeySets)

\* a faulty ServeInZone that serves the names under the apex label like any other
ServeInZoneNoSubApex(qname, qtype, zone, indexKeySets) ==
    IF ~hasSynced
    THEN Outcome(qname, qtype, "servfail", "unsynced", zone, FALSE, NoMsg, NoEngine)
    ELSE ServeEngine(qname, qtype, zone, ZoneLoop(1, StateName(qname)) = "apex",
                     indexKeySets)

\* ServeDNS once the query matched a zone: the sync gate, then apex and sub-apex
ServeInZone(qname, qtype, zone, indexKeySets) ==
    LET routed(where) ==
            IF where = "subapex" THEN serveSubApex(qname, qtype, zone)
            ELSE ServeEngine(qname, qtype, zone, where = "apex", indexKeySets)
    IN  IF ~hasSynced
        THEN Outcome(qname, qtype, "servfail", "unsynced", zone, FALSE, NoMsg, NoEngine)
        ELSE routed(ZoneLoop(1, StateName(qname)))

\* gw.ServeDNS(ctx, w, r) for the question (qname, qtype)
ServeDNSResult(qname, qtype) ==
    LET inZone(zone) == ServeInZone(qname, qtype, zone, getQueryIndexKeySets(qname, zone))
        \* zone = qname[len(qname)-len(zone):], the case of the query kept
        served(matched) ==
            IF matched = <<>>
            THEN Outcome(qname, qtype, "next", "outside", <<>>, FALSE, NoMsg, NoEngine)
            ELSE inZone(Drop(qname, Len(qname) - Len(matched)))
    IN  served(Matches(cfg.zones, qname))

(***************************************************************************)
(* Configurations the plugin is loaded with, and the questions asked.      *)
(***************************************************************************)
ZoneZ == <<"z", ".">>
ZoneWZ == <<"w", ".", "z", ".">>

BaseConfig ==
    [zones |-> <<ZoneZ>>, fall |-> <<>>, resources |-> <<"Ingress", "Service">>,
     crdGateway |-> FALSE, crdDNSEndpoint |-> FALSE,
     ingressClasses |-> <<>>, gatewayClasses |-> <<>>,
     apex |-> <<"n", ".", "k">>, hostmaster |-> <<"h">>, secondNS |-> <<>>,
     ttlLow |-> ttlDefault, ttlSOA |-> ttlSOA]

Configs ==
    { BaseConfig,
      [BaseConfig EXCEPT !.fall = <<Root>>,
                         !.resources = <<"Service", "Pod", "Ingress">>,
                         !.ingressClasses = <<"nginx">>],
      [BaseConfig EXCEPT !.zones = <<ZoneZ, ZoneWZ>>, !.fall = <<ZoneWZ>>,
                         !.resources = <<"HTTPRoute", "Ingress">>,
                         !.crdGateway = TRUE,
                         !.gatewayClasses = <<"istio">>],
      [BaseConfig EXCEPT !.resources = <<"DNSEndpoint", "TLSRoute", "Service">>,
                         !.crdDNSEndpoint = TRUE,
                         !.ttlLow = 30] }

BaseNames ==
    { <<"z", ".">>,
      <<"a", ".", "z", ".">>,
      <<"a", ".", "w", ".", "z", ".">>,
      <<"n", ".", "k", ".", "z", ".">>,
      <<"o", ".">> }

\* names under the apex label of a zone, asked in lower case
SubApexNames ==
    { <<"a", ".", "n", ".", "k", ".", "z", ".">>,
      <<"n", ".", "k", ".", "w", ".", "z", ".">> }

QueryNames == UNION {CaseVariants(n) : n \in BaseNames} \cup SubApexNames

QTypes == {"A", "AAAA", "TXT", "SOA", "NS", "CNAME"}

\* var staticResources: the catalogue, in its declared order
staticResources == <<"HTTPRoute", "TLSRoute", "GRPCRoute", "Ingress", "Service",
                     "DNSEndpoint">>

routingResources == <<"HTTPRoute", "TLSRoute", "GRPCRoute">>

NoResp == [kind |-> "none"]
NoTxt == [done |-> FALSE, records |-> <<>>]
NoPeer == [phase |-> "none"]

Idle == resp.kind = "none"

(***************************************************************************)
(* Start-up.                                                               *)
(***************************************************************************)
\* newGateway()
Init ==
    /\ phase = "new"
    /\ cfg \in Configs
    /\ Resources = staticResources
    /\ staticLookup = [k \in Kinds |-> "noop"]
    /\ controllers = {}
    /\ hasSynced = FALSE
    /\ runPc = "none"
    /\ informerSynced = {}
    /\ store = [k \in InformerKinds |-> {}]
    /\ resp = NoResp
    /\ txtIn = <<>>
    /\ txtOut = NoTxt
    /\ peer = NoPeer

\* gw.lookupResource(resource) != nil
lookupResource(resource) == Contains(Resources, resource)

\* a faulty updateResources that keeps the order of the static catalogue
updateResourcesCatalogueOrder(newResources) ==
    SelectSeq(staticResources, LAMBDA name : Contains(newResources, name))

\* the registry updateResources builds from the configured names
updateResources(newResources) ==
    SelectSeq(newResources, LAMBDA name : Contains(staticResources, name))

\* setup: gw.updateResources(names); gw.SetConfiguredResources(names)
Setup ==
    /\ phase = "new"
    /\ phase' = "configured"
    /\ Resources' = updateResources(cfg.resources)
    /\ UNCHANGED <<cfg, staticLookup, controllers, hasSynced, runPc, informerSynced,
                   store, resp, txtIn, txtOut, peer>>

\* the kinds for which newKubeController builds an informer and installs a lookup
InstalledKinds ==
    LET configured(k) == Contains(cfg.resources, k)
        shouldInitGateway == \E r \in Range(routingResources) : configured(r)
    IN  {k \in Kinds :
           /\ configured(k)
           /\ lookupResource(k)
           /\ CASE k \in Range(routingResources) -> cfg.crdGateway /\ shouldInitGateway
                [] k \in {"Ingress", "Service"} -> TRUE
                [] k = "DNSEndpoint" -> cfg.crdDNSEndpoint}

\* ctrl.controllers after newKubeController
NewControllers ==
    InstalledKinds
    \cup (IF cfg.crdGateway /\ (\E r \in Range(routingResources) : Contains(cfg.resources, r))
          THEN {"Gateway"} ELSE {})

\* gw.RunKubeController(ctx): newKubeController, then go gw.Controller.run()
RunKubeController ==
    /\ phase = "configured"
    /\ phase' = "started"
    /\ staticLookup' = [k \in Kinds |->
                          IF k \in InstalledKinds THEN "installed" ELSE staticLookup[k]]
    /\ controllers' = NewControllers
    /\ runPc' = "start"
    /\ UNCHANGED <<cfg, Resources, hasSynced, informerSynced, store, resp, txtIn,
                   txtOut, peer>>

(***************************************************************************)
(* KubeController.run and the informers.                                   *)
(***************************************************************************)
\* for _, ctrl := range ctrl.controllers { go ctrl.Run(stopCh) }
RunStart ==
    /\ Idle
    /\ runPc = "start"
    /\ runPc' = "waiting"
    /\ UNCHANGED <<phase, cfg, Resources, staticLookup, controllers, hasSynced,
                   informerSynced, store, resp, txtIn, txtOut, peer>>

InformersRunning == runPc \in {"waiting", "failed", "blocked"}

StoredObjs == UNION {store[k] : k \in InformerKinds}

\* an informer files an object it was told of
InformerAdd(k, id) ==
    /\ Idle
    /\ InformersRunning
    /\ k \in controllers
    /\ id \in IdsOfKind(k) \ store[k]
    /\ Cardinality(StoredObjs) < MaxObjs
    /\ store' = [store EXCEPT ![k] = @ \cup {id}]
    /\ UNCHANGED <<phase, cfg, Resources, staticLookup, controllers, hasSynced, runPc,
                   informerSynced, resp, txtIn, txtOut, peer>>

\* an informer drops an object that was deleted
InformerDelete(k, id) ==
    /\ Idle
    /\ InformersRunning
    /\ k \in controllers
    /\ id \in store[k]
    /\ store' = [store EXCEPT ![k] = @ \ {id}]
    /\ UNCHANGED <<phase, cfg, Resources, staticLookup, controllers, hasSynced, runPc,
                   informerSynced, resp, txtIn, txtOut, peer>>

\* an informer has delivered its initial list: its HasSynced reports true
InformerHasSynced(k) ==
    /\ Idle
    /\ runPc = "waiting"
    /\ k \in controllers \ informerSynced
    /\ informerSynced' = informerSynced \cup {k}
    /\ UNCHANGED <<phase, cfg, Resources, staticLookup, controllers, hasSynced, runPc,
                   store, resp, txtIn, txtOut, peer>>

\* cache.WaitForCacheSync returns true
WaitForCacheSyncOk ==
    /\ Idle
    /\ runPc = "waiting"
    /\ informerSynced = controllers
    /\ hasSynced' = TRUE
    /\ runPc' = "blocked"
    /\ UNCHANGED <<phase, cfg, Resources, staticLookup, controllers, informerSynced,
                   store, resp, txtIn, txtOut, peer>>

\* cache.WaitForCacheSync returns false: ctrl.hasSynced = false
WaitForCacheSyncFailed ==
    /\ Idle
    /\ runPc = "waiting"
    /\ informerSynced # controllers
    /\ hasSynced' = FALSE
    /\ runPc' = "failed"
    /\ UNCHANGED <<phase, cfg, Resources, staticLookup, controllers, informerSynced,
                   store, resp, txtIn, txtOut, peer>>

\* the statement after the if: ctrl.hasSynced = true, then <-stopCh
RunSetSynced ==
    /\ Idle
    /\ runPc = "failed"
    /\ hasSynced' = TRUE
    /\ runPc' = "blocked"
    /\ UNCHANGED <<phase, cfg, Resources, staticLookup, controllers, informerSynced,
                   store, resp, txtIn, txtOut, peer>>

(***************************************************************************)
(* Serving.                                                                *)
(***************************************************************************)
\* one call of gw.ServeDNS, its outcome kept in the recorder
ServeDNS(qname, qtype) ==
    /\ Idle
    /\ phase = "started"
    /\ resp' = ServeDNSResult(qname, qtype)
    /\ UNCHANGED <<phase, cfg, Resources, staticLookup, controllers, hasSynced, runPc,
                   informerSynced, store, txtIn, txtOut, peer>>

\* w := dnstest.NewRecorder(...): a fresh recorder for the next query
NewRecorder ==
    /\ ~Idle
    /\ resp' = NoResp
    /\ UNCHANGED <<phase, cfg, Resources, staticLookup, controllers, hasSynced, runPc,
                   informerSynced, store, txtIn, txtOut, peer>>

Next ==
    \/ Setup
    \/ RunKubeController
    \/ RunStart
    \/ \E k \in InformerKinds, id \in ClusterObjs : InformerAdd(k, id)
    \/ \E k \in InformerKinds, id \in ClusterObjs : InformerDelete(k, id)
    \/ \E k \in InformerKinds : InformerHasSynced(k)
    \/ WaitForCacheSyncOk
    \/ WaitForCacheSyncFailed
    \/ RunSetSynced
    \/ \E qname \in QueryNames, qtype \in QTypes : ServeDNS(qname, qtype)
    \/ NewRecorder

Spec == Init /\ [][Next]_vars

(***************************************************************************)
(* The TXT record builder on its own: gw.TXT applied to the TXT list of a  *)
(* bundle whose values have every length up to MaxStrLen.                  *)
(***************************************************************************)
TxtLetters == <<"c", "h", "a">>

\* a value of n bytes; its i-th byte depends on i and on k
TxtValue(n, k) == [i \in 1..n |-> TxtLetters[((i + k) % 3) + 1]]

TxtValues == {TxtValue(n, k) : n \in 0..MaxStrLen, k \in 0..1}

\* the values a lookup appends to a TXT list that holds one value already
TxtAppended == {TxtValue(0, 0), TxtValue(ChunkLen, 1), TxtValue(MaxStrLen, 0)}

TxtOwner == <<"a", ".", "z", ".">>

InitSplit ==
    /\ phase = "new"
    /\ cfg = BaseConfig
    /\ Resources = staticResources
    /\ staticLookup = [k \in Kinds |-> "noop"]
    /\ controllers = {}
    /\ hasSynced = FALSE
    /\ runPc = "none"
    /\ informerSynced = {}
    /\ store = [k \in InformerKinds |-> {}]
    /\ resp = NoResp
    /\ txtIn \in {<<v>> : v \in TxtValues}
    /\ txtOut = NoTxt
    /\ peer = NoPeer

\* result["TXT"] = append(result["TXT"], value): one more value in the TXT list
AppendTXT(value) ==
    /\ ~txtOut.done
    /\ Len(txtIn) < MaxTxtVals
    /\ txtIn' = Append(txtIn, value)
    /\ UNCHANGED <<phase, cfg, Resources, staticLookup, controllers, hasSynced, runPc,
                   informerSynced, store, resp, txtOut, peer>>

\* m.Answer = gw.TXT(state.Name(), addrs["TXT"])
TXT ==
    /\ ~txtOut.done
    /\ txtOut' = [done |-> TRUE, records |-> RecordsTXT(TxtOwner, txtIn)]
    /\ UNCHANGED <<phase, cfg, Resources, staticLookup, controllers, hasSynced, runPc,
                   informerSynced, store, resp, txtIn, peer>>

NextSplit ==
    \/ \E value \in TxtAppended : AppendTXT(value)
    \/ TXT

SpecSplit == InitSplit /\ [][NextSplit]_vars

(***************************************************************************)
(* The index functions and the lookup closures against a cluster whose     *)
(* objects exercise their branches: Services with externalIPs, with        *)
(* annotations and of another type, routes with several parentRefs, an     *)
(* endpoint declared in upper case.                                        *)
(***************************************************************************)
IndexConfig ==
    [BaseConfig EXCEPT !.resources = <<"HTTPRoute", "Service", "DNSEndpoint">>,
                       !.crdGateway = TRUE, !.crdDNSEndpoint = TRUE]

IndexNames ==
    { <<"a", ".", "z", ".">>,
      <<"b", ".", "z", ".">>,
      <<"o", ".", "z", ".">>,
      <<"o", ".", "w", ".", "z", ".">>,
      <<"k", ".", "w", ".", "z", ".">>,
      <<"b", ".", "k", ".", "z", ".">>,
      <<"o", ".", "k", ".", "z", ".">> }

IndexQTypes == {"A", "AAAA"}

InitIndex ==
    /\ phase = "new"
    /\ cfg = IndexConfig
    /\ Resources = staticResources
    /\ staticLookup = [k \in Kinds |-> "noop"]
    /\ controllers = {}
    /\ hasSynced = FALSE
    /\ runPc = "none"
    /\ informerSynced = {}
    /\ store = [k \in InformerKinds |-> {}]
    /\ resp = NoResp
    /\ txtIn = <<>>
    /\ txtOut = NoTxt
    /\ peer = NoPeer

NextIndex ==
    \/ Setup
    \/ RunKubeController
    \/ RunStart
    \/ \E k \in InformerKinds, id \in IndexObjs : InformerAdd(k, id)
    \/ \E k \in InformerKinds, id \in IndexObjs : InformerDelete(k, id)
    \/ \E k \in InformerKinds : InformerHasSynced(k)
    \/ WaitForCacheSyncOk
    \/ WaitForCacheSyncFailed
    \/ RunSetSynced
    \/ \E qname \in IndexNames, qtype \in IndexQTypes : ServeDNS(qname, qtype)
    \/ NewRecorder

SpecIndex == InitIndex /\ [][NextIndex]_vars

(***************************************************************************)
(* A third cluster, with objects that leave optional fields unset: an      *)
(* Ingress without spec.ingressClassName under an ingress-class filter and *)
(* a Gateway with a status address without type, an Ingress rule without  *)
(* host.                                                                   *)
(***************************************************************************)
UnsetConfig ==
    [BaseConfig EXCEPT !.resources = <<"Ingress", "HTTPRoute">>,
                       !.crdGateway = TRUE,
                       !.ingressClasses = <<"nginx">>]

UnsetObjs == {"ing_a", "ing_apex", "ing_nocls", "ing_nohost", "rt_a", "rt_nt", "gw1",
              "gw_nt"}

UnsetNames == {<<"a", ".", "z", ".">>, <<"o", ".", "z", ".">>, <<"z", ".">>}

UnsetQTypes == {"A", "NS"}

InitUnset ==
    /\ phase = "new"
    /\ cfg = UnsetConfig
    /\ Resources = staticResources
    /\ staticLookup = [k \in Kinds |-> "noop"]
    /\ controllers = {}
    /\ hasSynced = FALSE
    /\ runPc = "none"
    /\ informerSynced = {}
    /\ store = [k \in InformerKinds |-> {}]
    /\ resp = NoResp
    /\ txtIn = <<>>
    /\ txtOut = NoTxt
    /\ peer = NoPeer

NextUnset ==
    \/ Setup
    \/ RunKubeController
    \/ RunStart
    \/ \E k \in InformerKinds, id \in UnsetObjs : InformerAdd(k, id)
    \/ \E k \in InformerKinds, id \in UnsetObjs : InformerDelete(k, id)
    \/ \E k \in InformerKinds : InformerHasSynced(k)
    \/ WaitForCacheSyncOk
    \/ WaitForCacheSyncFailed
    \/ RunSetSynced
    \/ \E qname \in UnsetNames, qtype \in UnsetQTypes : ServeDNS(qname, qtype)
    \/ NewRecorder

SpecUnset == InitUnset /\ [][NextUnset]_vars

(***************************************************************************)
(* Shutdown.  RunKubeController hands its context to newKubeController,    *)
(* which gives it to the list and watch functions of the informers; run()  *)
(* makes a stop channel of its own, starts the informers on it, and ends   *)
(* with a receive from it.                                                 *)
(***************************************************************************)
\* the caller cancels the context it gave to RunKubeController
CancelContext ==
    /\ Idle
    /\ phase = "started"
    /\ phase' = "cancelled"
    /\ UNCHANGED <<cfg, Resources, staticLookup, controllers, hasSynced, runPc,
                   informerSynced, store, resp, txtIn, txtOut, peer>>

\* stopCh is closed by the deferred close of run() alone, that is when run returns
StopChClosed == runPc = "returned"

\* the steps of the goroutine of run(); the receive <-stopCh that ends it can be
\* taken only when stopCh is closed
RunStep ==
    \/ RunStart
    \/ WaitForCacheSyncOk
    \/ WaitForCacheSyncFailed
    \/ RunSetSynced

StopObjs == {"ing_a", "svc_aw", "svc_nk"}

StopNames == {<<"a", ".", "z", ".">>, <<"a", ".", "w", ".", "z", ".">>}

InitStop ==
    /\ phase = "new"
    /\ cfg = BaseConfig
    /\ Resources = staticResources
    /\ staticLookup = [k \in Kinds |-> "noop"]
    /\ controllers = {}
    /\ hasSynced = FALSE
    /\ runPc = "none"
    /\ informerSynced = {}
    /\ store = [k \in InformerKinds |-> {}]
    /\ resp = NoResp
    /\ txtIn = <<>>
    /\ txtOut = NoTxt
    /\ peer = NoPeer

\* list and watch calls fail once the context is done: the informers get no event
NextStop ==
    \/ Setup
    \/ RunKubeController
    \/ RunStart
    \/ \E k \in InformerKinds, id \in StopObjs : phase = "started" /\ InformerAdd(k, id)
    \/ \E k \in InformerKinds, id \in StopObjs : phase = "started" /\ InformerDelete(k, id)
    \/ \E k \in InformerKinds : phase = "started" /\ InformerHasSynced(k)
    \/ WaitForCacheSyncOk
    \/ WaitForCacheSyncFailed
    \/ RunSetSynced
    \/ CancelContext
    \/ \E qname \in StopNames, qtype \in IndexQTypes : ServeDNS(qname, qtype)
    \/ NewRecorder

\* the Go scheduler lets the goroutine of run() take a step it can take
SpecStop == InitStop /\ [][NextStop]_vars /\ WF_vars(RunStep)

(***************************************************************************)
(* Two Gateways in one process.  newGateway gives every Gateway the slice  *)
(* staticResources, and updateResources fills gw.Resources with the        *)
(* pointers held by that slice: staticLookup, the lookup field of these    *)
(* entries, is the one table of the package.  Of the second Gateway the    *)
(* model keeps the start-up position, the configuration and the registry;  *)
(* its informer caches are empty.                                          *)
(***************************************************************************)
\* the kinds for which newKubeController, called for a Gateway with configuration
\* c and registry registry, installs a lookup
KindsInstalledFor(c, registry) ==
    LET configured(k) == Contains(c.resources, k)
        shouldInitGateway == \E r \in Range(routingResources) : configured(r)
    IN  {k \in Kinds :
           /\ configured(k)
           /\ Contains(registry, k)
           /\ CASE k \in Range(routingResources) -> c.crdGateway /\ shouldInitGateway
                [] k \in {"Ingress", "Service"} -> TRUE
                [] k = "DNSEndpoint" -> c.crdDNSEndpoint}

\* setup of the second Gateway: gw.updateResources(names)
PeerSetup ==
    /\ Idle
    /\ peer.phase = "new"
    /\ peer' = [peer EXCEPT !.phase = "configured",
                            !.Resources = updateResources(peer.cfg.resources)]
    /\ UNCHANGED <<phase, cfg, Resources, staticLookup, controllers, hasSynced, runPc,
                   informerSynced, store, resp, txtIn, txtOut>>

\* RunKubeController of the second Gateway: newKubeController assigns
\* resource.lookup of the entries lookupResource finds
PeerRunKubeController ==
    /\ Idle
    /\ peer.phase = "configured"
    /\ peer' = [peer EXCEPT !.phase = "started"]
    /\ staticLookup' = [k \in Kinds |->
                          IF k \in KindsInstalledFor(peer.cfg, peer.Resources)
                          THEN "peer" ELSE staticLookup[k]]
    /\ UNCHANGED <<phase, cfg, Resources, controllers, hasSynced, runPc,
                   informerSynced, store, resp, txtIn, txtOut>>

PeerConfigs ==
    { BaseConfig, [BaseConfig EXCEPT !.resources = <<"Service">>] }

InitPeers ==
    /\ phase = "new"
    /\ cfg = BaseConfig
    /\ Resources = staticResources
    /\ staticLookup = [k \in Kinds |-> "noop"]
    /\ controllers = {}
    /\ hasSynced = FALSE
    /\ runPc = "none"
    /\ informerSynced = {}
    /\ store = [k \in InformerKinds |-> {}]
    /\ resp = NoResp
    /\ txtIn = <<>>
    /\ txtOut = NoTxt
    /\ peer \in {[phase |-> "new", cfg |-> c, Resources |-> staticResources] :
                   c \in PeerConfigs}

NextPeers ==
    \/ Setup
    \/ RunKubeController
    \/ RunStart
    \/ \E k \in InformerKinds, id \in StopObjs : InformerAdd(k, id)
    \/ \E k \in InformerKinds, id \in StopObjs : InformerDelete(k, id)
    \/ \E k \in InformerKinds : InformerHasSynced(k)
    \/ WaitForCacheSyncOk
    \/ WaitForCacheSyncFailed
    \/ RunSetSynced
    \/ PeerSetup
    \/ PeerRunKubeController
    \/ \E qname \in StopNames, qtype \in IndexQTypes : ServeDNS(qname, qtype)
    \/ NewRecorder

SpecPeers == InitPeers /\ [][NextPeers]_vars

(***************************************************************************)
(* Properties of the responder.  They read the outcome of the query served *)
(* last; the caches and the controller are as they were when it was served,*)
(* since nothing else moves until the recorder is replaced.                *)
(***************************************************************************)
Served == resp.kind # "none"

\* the question name lies in a configured zone
InZone == \E i \in 1..Len(cfg.zones) : IsSubDomain(cfg.zones[i], resp.qname)

\* a configured fallthrough zone covers the question name
Covered == \E i \in 1..Len(cfg.fall) : IsSubDomain(cfg.fall[i], resp.qname)

NoRecords(b) == b.A = <<>> /\ b.AAAA = <<>> /\ b.TXT = <<>>

\* the query engine ran for the query, and every lookup returned
EngineRan == Served /\ resp.path \in {"engine", "fallthrough"} /\ resp.kind # "panic"

LastCall == resp.calls[Len(resp.calls)]

Calls == IF Served THEN {resp.calls[n] : n \in 1..Len(resp.calls)} ELSE {}

\* the key sets of the question: under its own name, and under the wildcard name
SpecificKeys == getQueryIndexKeys(resp.qname, resp.zone)
WildcardKeys == getQueryIndexKeys(toWildcardQName(resp.qname, resp.zone), resp.zone)

\* C1: while the controller's HasSynced() is false, a query whose name is in a
\* configured zone ends in SERVFAIL: no message is written, no lookup is run and
\* the next handler is not invoked.
C1_SyncGate ==
    (Served /\ ~hasSynced /\ InZone) =>
        /\ resp.kind = "servfail"
        /\ resp.msg = NoMsg
        /\ resp.calls = <<>>

\* a sub-apex query refused while the Service it asks for is cached already
C1_Witness ==
    /\ Served
    /\ ~hasSynced
    /\ resp.kind = "servfail"
    /\ ToLower(resp.qname) = cfg.apex \o <<".">> \o cfg.zones[1]
    /\ "svc_nk" \in store["Service"]

\* C2: with a synced controller, a query outside every configured zone reaches the
\* next handler; a query for which the engine ran reaches it exactly when its
\* bundle is empty for A, AAAA and TXT and a fallthrough zone covers the name, and
\* is answered with a message otherwise.
C2_Fallthrough ==
    (Served /\ hasSynced) =>
        /\ ~InZone => (resp.kind = "next" /\ resp.msg = NoMsg /\ resp.calls = <<>>)
        /\ (InZone /\ EngineRan) =>
              IF NoRecords(resp.addrs) /\ Covered
              THEN resp.kind = "next" /\ resp.msg = NoMsg
              ELSE resp.kind = "reply" /\ resp.msg.rcode \in {"NOERROR", "NXDOMAIN"}

\* an in-zone name without addresses handed on although objects are cached
C2_Witness ==
    /\ Served
    /\ hasSynced
    /\ InZone
    /\ resp.kind = "next"
    /\ resp.path = "fallthrough"
    /\ StoredObjs # {}

\* the registry follows the configured order and holds every enabled kind
RegistryInConfiguredOrder ==
    /\ Range(Resources) = Range(cfg.resources) \cap Range(staticResources)
    /\ \A i, j \in 1..Len(Resources) :
          i < j => \E p, q \in 1..Len(cfg.resources) :
                     /\ p < q
                     /\ cfg.resources[p] = Resources[i]
                     /\ cfg.resources[q] = Resources[j]
    /\ \A k \in Kinds : staticLookup[k] = "installed" => k \in Range(Resources)

\* C3: the registry built by updateResources lists the enabled kinds in configured
\* order, and when two kinds both return a non-empty bundle for the same key set,
\* the later one is never the one answered from: the bundle is the result of a
\* lookup at or before the earlier position, and the answer holds its addresses.
C3_Precedence ==
    /\ phase # "new" => RegistryInConfiguredOrder
    /\ (EngineRan /\ resp.kind = "reply") =>
          \A j1, j2 \in 1..Len(Resources) :
            \A keys \in {SpecificKeys, WildcardKeys} :
              ( /\ j1 < j2
                /\ \A j \in {j1, j2} : ~NoRecords(Lookup(Resources[j], keys)) )
              => /\ ~(LastCall.keys = keys /\ LastCall.pos = j2)
                 /\ LastCall.keys = keys => LastCall.pos <= j1
                 /\ resp.addrs = LastCall.out
                 /\ resp.qtype = "A" =>
                       {resp.msg.Answer[n].data : n \in 1..Len(resp.msg.Answer)}
                         = Range(Lookup(LastCall.kind, LastCall.keys).A)

\* an Ingress and a Service both hold the name; Service is configured first and
\* the answer is the Service's address
C3_Witness ==
    /\ EngineRan
    /\ resp.kind = "reply"
    /\ resp.qtype = "A"
    /\ Resources[1] = "Service"
    /\ "ing_a" \in store["Ingress"]
    /\ "svc_a" \in store["Service"]
    /\ ~NoRecords(Lookup("Ingress", SpecificKeys))
    /\ ~NoRecords(Lookup("Service", SpecificKeys))
    /\ Len(resp.msg.Answer) = 1
    /\ resp.msg.Answer[1].data = "10.0.9.9"

\* C4: the wildcard key set is passed to a lookup only after every registry entry
\* has returned an empty bundle for the specific key set; when any kind has
\* addresses under the exact name, the bundle comes from the specific key set,
\* whatever the registry positions of the kinds.
C4_SpecificBeforeWildcard ==
    EngineRan =>
        /\ \A n \in 1..Len(resp.calls) :
              /\ resp.calls[n].keys \in {SpecificKeys, WildcardKeys}
              /\ resp.calls[n].keys = WildcardKeys =>
                    \A j \in 1..Len(Resources) :
                      \E m \in 1..(n - 1) :
                        /\ resp.calls[m].keys = SpecificKeys
                        /\ resp.calls[m].pos = j
                        /\ NoRecords(resp.calls[m].out)
                        /\ NoRecords(Lookup(Resources[j], SpecificKeys))
        /\ (\E j \in 1..Len(Resources) : ~NoRecords(Lookup(Resources[j], SpecificKeys)))
              => /\ LastCall.keys = SpecificKeys
                 /\ resp.addrs = LastCall.out
                 /\ ~NoRecords(resp.addrs)

\* a Service under the exact name wins over the wildcard Ingress registered
\* before it
C4_Witness ==
    /\ EngineRan
    /\ resp.kind = "reply"
    /\ resp.qtype = "A"
    /\ Resources = <<"Ingress", "Service">>
    /\ ~NoRecords(Lookup("Ingress", WildcardKeys))
    /\ ~NoRecords(Lookup("Service", SpecificKeys))
    /\ Len(resp.msg.Answer) = 1
    /\ resp.msg.Answer[1].data = "10.0.1.1"

\* C5: getMatchingAddresses invokes the lookups in the order (key set, registry
\* position) and returns exactly the result of the first call whose A, AAAA or
\* TXT list is non-empty; no lookup follows it and nothing is merged.  An AAAA
\* query whose bundle has no AAAA address gets no AAAA answer.
C5_FirstNonEmpty ==
    EngineRan =>
        LET sets == getQueryIndexKeySets(resp.qname, resp.zone)
            n == Len(resp.calls)
            width == Len(Resources)
        IN  /\ \A m \in 1..n :
                  /\ resp.calls[m].set = ((m - 1) \div width) + 1
                  /\ resp.calls[m].pos = ((m - 1) % width) + 1
                  /\ resp.calls[m].kind = Resources[resp.calls[m].pos]
                  /\ resp.calls[m].keys = sets[resp.calls[m].set]
                  /\ resp.calls[m].out
                       = EnsureKeys(Lookup(resp.calls[m].kind, resp.calls[m].keys))
            /\ \A m \in 1..(n - 1) : NoRecords(resp.calls[m].out)
            /\ IF n > 0 /\ ~NoRecords(resp.calls[n].out)
               THEN resp.addrs = resp.calls[n].out
               ELSE n = Len(sets) * width /\ resp.addrs = NilBundle
            /\ (resp.kind = "reply" /\ resp.qtype = "AAAA" /\ resp.addrs.AAAA = <<>>)
                  => resp.msg.Answer = <<>>

\* an AAAA query for a name with an A-only Ingress while a wildcard Ingress has
\* an AAAA address: the search stopped at the specific key set
C5_Witness ==
    /\ EngineRan
    /\ resp.kind = "reply"
    /\ resp.qtype = "AAAA"
    /\ LastCall.keys = SpecificKeys
    /\ resp.addrs.A # <<>>
    /\ resp.addrs.AAAA = <<>>
    /\ Lookup("Ingress", WildcardKeys).AAAA # <<>>
    /\ resp.msg.Answer = <<>>

\* the question name is a configured zone
AtApex == \E i \in 1..Len(cfg.zones) : ToLower(resp.qname) = cfg.zones[i]

\* the one record of the Authority section is the SOA of the matched zone
AuthorityIsSOA ==
    /\ resp.msg.Ns = <<soa(resp.zone)>>
    /\ resp.msg.Ns[1].rrtype = "SOA"
    /\ ToLower(resp.msg.Ns[1].name) = Matches(cfg.zones, resp.qname)

\* C6: an A, AAAA or TXT query that is answered with a message and whose bundle is
\* empty for all three record types gets an empty Answer section, the zone SOA in
\* the Authority section, and rcode NOERROR at the apex, NXDOMAIN elsewhere.
C6_EmptyBundle ==
    ( /\ EngineRan
      /\ resp.kind = "reply"
      /\ resp.qtype \in {"A", "AAAA", "TXT"}
      /\ NoRecords(resp.addrs) )
    => /\ resp.msg.Answer = <<>>
       /\ AuthorityIsSOA
       /\ resp.msg.rcode = IF AtApex THEN "NOERROR" ELSE "NXDOMAIN"

\* an apex query without addresses, answered NOERROR
C6_Witness ==
    /\ EngineRan
    /\ resp.kind = "reply"
    /\ resp.qtype = "TXT"
    /\ NoRecords(resp.addrs)
    /\ AtApex
    /\ resp.msg.rcode = "NOERROR"
    /\ StoredObjs # {}

\* C7: an AAAA query whose bundle has no AAAA address but at least one A address
\* is answered NOERROR with an empty Answer section and the SOA in the Authority
\* section, at the apex and elsewhere.
C7_Rfc4074 ==
    ( /\ EngineRan
      /\ resp.kind = "reply"
      /\ resp.qtype = "AAAA"
      /\ resp.addrs.AAAA = <<>>
      /\ resp.addrs.A # <<>> )
    => /\ resp.msg.rcode = "NOERROR"
       /\ resp.msg.Answer = <<>>
       /\ AuthorityIsSOA

\* the case away from the apex, where an empty bundle would mean NXDOMAIN
C7_Witness ==
    /\ EngineRan
    /\ resp.kind = "reply"
    /\ resp.qtype = "AAAA"
    /\ resp.addrs.AAAA = <<>>
    /\ resp.addrs.A # <<>>
    /\ ~AtApex
    /\ resp.msg.rcode = "NOERROR"

\* domain names compared without regard to letter case
FoldRR(rr) ==
    [rr EXCEPT !.name = ToLower(@),
               !.data = IF rr.rrtype = "SOA"
                        THEN [@ EXCEPT !.ns = ToLower(@), !.mbox = ToLower(@)]
                        ELSE IF rr.rrtype = "NS" THEN ToLower(@)
                        ELSE @]

Fold(rrs) == [n \in 1..Len(rrs) |-> FoldRR(rrs[n])]

\* the outcome of the same question asked in lower case, the caches unchanged
LowerCaseOutcome == ServeDNSResult(ToLower(resp.qname), resp.qtype)

SameDecision(o1, o2) ==
    /\ o1.kind = o2.kind
    /\ o1.path = o2.path
    /\ o1.isRootZoneQuery = o2.isRootZoneQuery
    /\ o1.msg.rcode = o2.msg.rcode
    /\ o1.msg.Authoritative = o2.msg.Authoritative

\* C8, as amended: a query in a configured zone and its lower-case variant get the
\* same rcode, the same delegation decision, the same apex and sub-apex
\* classification and the same records in Answer, Authority and Extra once owner
\* names and the names in SOA and NS data are compared without regard to letter
\* case; A, AAAA and TXT answers of the engine carry the lower-cased query name,
\* with the same data.
C8_SameUpToCase ==
    (Served /\ InZone) =>
        LET lower == LowerCaseOutcome
        IN  /\ SameDecision(resp, lower)
            /\ Fold(resp.msg.Answer) = Fold(lower.msg.Answer)
            /\ Fold(resp.msg.Ns) = Fold(lower.msg.Ns)
            /\ Fold(resp.msg.Extra) = Fold(lower.msg.Extra)
            /\ (EngineRan /\ resp.qtype \in {"A", "AAAA", "TXT"})
                  => resp.msg.Answer = lower.msg.Answer

\* C8, as claimed: a query in a configured zone and its lower-case variant get the
\* same decision and the same records, owner names included; stated for the
\* records gw.A, gw.AAAA, gw.TXT and gw.SelfAddress build: the A, AAAA and TXT
\* answers of the engine and the Extra section.
C8_SameRecords ==
    (Served /\ InZone) =>
        LET lower == LowerCaseOutcome
        IN  /\ SameDecision(resp, lower)
            /\ (EngineRan /\ resp.qtype \in {"A", "AAAA", "TXT"})
                  => resp.msg.Answer = lower.msg.Answer
            /\ resp.msg.Extra = lower.msg.Extra

\* an apex NS query spelled in upper case, answered with the plugin's own address
C8_Witness ==
    /\ Served
    /\ InZone
    /\ resp.kind = "reply"
    /\ resp.qtype = "NS"
    /\ resp.qname # ToLower(resp.qname)
    /\ resp.isRootZoneQuery
    /\ Len(resp.msg.Extra) > 0

\* C9: every message ServeDNS writes has the Authoritative flag set, whatever the
\* query type, the rcode and the bundle.
C9_Authoritative ==
    (EngineRan /\ resp.kind = "reply") => resp.msg.Authoritative

\* an NXDOMAIN answer to a query of a type the switch has no case for
C9_Witness ==
    /\ EngineRan
    /\ resp.kind = "reply"
    /\ resp.qtype = "CNAME"
    /\ ~AtApex
    /\ resp.msg.Authoritative
    /\ resp.msg.Ns # <<>>

\* ServeDNS answered the query from its own switch: the controller was synced, the
\* name is no sub-apex name and the query was not passed on by fallthrough
SwitchAnswered == EngineRan /\ resp.kind = "reply"

\* the types the switch of ServeDNS answers with the SOA in Authority alone
SoaOnlyType == \/ resp.qtype = "NS" /\ ~AtApex
               \/ resp.qtype \notin {"A", "AAAA", "TXT", "SOA", "NS"}

AnswerIsSOA ==
    /\ resp.msg.Answer = <<soa(resp.zone)>>
    /\ resp.msg.Answer[1].rrtype = "SOA"
    /\ ToLower(resp.msg.Answer[1].name) = Matches(cfg.zones, resp.qname)
    /\ resp.msg.Ns = <<>>

\* what the switch makes of a SOA query, of a non-apex NS query and of a query of
\* another type than A, AAAA, TXT, SOA and NS
SoaAnswers ==
    /\ resp.qtype = "SOA" => AnswerIsSOA /\ resp.msg.rcode = "NOERROR"
    /\ SoaOnlyType => /\ resp.msg.Answer = <<>>
                      /\ AuthorityIsSOA
                      /\ resp.msg.rcode = "NOERROR"

\* C12, as amended: with a synced controller, a query for a name in a configured
\* zone that is no sub-apex name is answered by ServeDNS itself unless its bundle
\* is empty and a fallthrough zone covers the name; when ServeDNS answers it, a SOA
\* query gets the zone's SOA in Answer, a non-apex NS query and a query of a type
\* other than A, AAAA, TXT, SOA and NS get an empty Answer and the SOA in
\* Authority, and the rcode is NOERROR whether or not the name has an address.
C12_SoaAnswers ==
    /\ SwitchAnswered => SoaAnswers
    /\ (Served /\ InZone /\ hasSynced /\ resp.path # "subapex" /\ resp.kind # "panic")
          => (SwitchAnswered <=> ~(NoRecords(resp.addrs) /\ Covered))

\* C12, as claimed: every SOA query, non-apex NS query and query of another type
\* for a name in a configured zone is answered so, read with a synced controller
\* and for names that are no sub-apex names.
C12_AlwaysAnswered ==
    ( /\ Served /\ InZone /\ hasSynced /\ resp.path # "subapex"
      /\ (resp.qtype = "SOA" \/ SoaOnlyType) )
    => (resp.kind = "reply" /\ SoaAnswers)

\* a query of another type for a name that has an address, answered NOERROR with
\* the SOA in Authority
C12_Witness ==
    /\ SwitchAnswered
    /\ resp.qtype = "CNAME"
    /\ ~AtApex
    /\ ~NoRecords(resp.addrs)
    /\ resp.msg.rcode = "NOERROR"
    /\ resp.msg.Answer = <<>>
    /\ AuthorityIsSOA

\* the answer of the switch to an NS query at the apex: the NS records of the
\* apex label in Answer, the records of ExternalAddrFunc in Extra with the SOA TTL
ApexNsAnswer ==
    LET own == ExternalAddrFunc(resp.zone, resp.qtype).records
    IN  /\ resp.msg.rcode = "NOERROR"
        /\ resp.msg.Answer = nameservers(resp.zone)
        /\ Len(resp.msg.Answer) > 0
        /\ \A i \in 1..Len(resp.msg.Answer) : resp.msg.Answer[i].rrtype = "NS"
        /\ ToLower(resp.msg.Answer[1].data)
              = cfg.apex \o <<".">> \o Matches(cfg.zones, resp.qname)
        /\ Len(resp.msg.Extra) = Len(own)
        /\ \A i \in 1..Len(own) :
              resp.msg.Extra[i] = [own[i] EXCEPT !.ttl = cfg.ttlSOA]

\* C13, as amended: with a synced controller an NS query whose name equals a
\* configured zone is answered by ServeDNS itself unless its bundle is empty and a
\* fallthrough zone covers the name; when it is answered, the rcode is NOERROR,
\* Answer holds the NS records of <apex-label>.<zone>, and Extra holds every record
\* ExternalAddrFunc returned, its TTL set to the SOA TTL.
C13_ApexNs ==
    /\ (SwitchAnswered /\ resp.qtype = "NS" /\ AtApex) => ApexNsAnswer
    /\ (Served /\ hasSynced /\ resp.qtype = "NS" /\ AtApex /\ resp.kind # "panic")
          => (SwitchAnswered <=> ~(NoRecords(resp.addrs) /\ Covered))

\* C13, as claimed: every NS query whose name equals a configured zone is answered
\* so, read with a synced controller.
C13_AlwaysAnswered ==
    (Served /\ hasSynced /\ resp.qtype = "NS" /\ AtApex)
    => (resp.kind = "reply" /\ ApexNsAnswer)

\* an apex NS query answered with the plugin's own address in Extra, built with
\* another TTL than the SOA TTL
C13_Witness ==
    /\ SwitchAnswered
    /\ resp.qtype = "NS"
    /\ AtApex
    /\ Len(resp.msg.Extra) > 0
    /\ cfg.ttlLow # cfg.ttlSOA
    /\ resp.msg.Extra[1].ttl = cfg.ttlSOA

\* the question name is <apex-label>.<zone> or a name under it, for the zone the
\* question matched
UnderApexLabel ==
    /\ InZone
    /\ IsSubDomain(cfg.apex \o <<".">> \o Matches(cfg.zones, resp.qname), resp.qname)

\* C14: with a synced controller a query whose name is <apex-label>.<zone> or a
\* name under it, for the zone the query matched, is handed to the sub-apex
\* responder: no lookup is run for it and the next handler is not invoked, also
\* when a fallthrough zone covers the name and no address exists for it.
C14_SubApex ==
    (Served /\ hasSynced /\ UnderApexLabel)
    => /\ resp.path = "subapex"
       /\ resp.calls = <<>>
       /\ resp.kind = "reply"

\* a name under the apex label of a nested zone that a fallthrough zone covers,
\* with nothing in the caches
C14_Witness ==
    /\ Served /\ hasSynced /\ UnderApexLabel
    /\ Covered
    /\ Len(cfg.zones) > 1
    /\ Matches(cfg.zones, resp.qname) = cfg.zones[2]
    /\ StoredObjs = {}
    /\ resp.path = "subapex"

\* cache.WaitForCacheSync has returned false in KubeController.run: the goroutine
\* is past the wait although some informer has not reported HasSynced
WaitFailed ==
    \/ runPc = "failed"
    \/ runPc = "blocked" /\ informerSynced # controllers

\* C15: once waiting for the informer caches has failed, HasSynced() is false in
\* every later state and every later query for a name in a configured zone ends
\* in SERVFAIL; HasSynced() is true only when every informer has reported
\* HasSynced.
C15_UnsyncedAfterFailure ==
    /\ WaitFailed => ~hasSynced
    /\ hasSynced => informerSynced = controllers
    /\ (WaitFailed /\ Served /\ InZone) => resp.kind = "servfail"

\* C16: every bundle a lookup closure returns (the no-op lookup included) and the
\* bundle getMatchingAddresses returns have the three keys A, AAAA and TXT, also
\* when no object matches any key.
C16_KeysAlwaysPresent ==
    (EngineRan /\ ~resp.addrs.panicked) =>
        /\ resp.addrs.keys = RecordTypes
        /\ \A c \in Calls :
               LET present(raw) == raw.panicked \/ raw.keys = RecordTypes
               IN  present(Lookup(c.kind, c.keys))

\* C16, as the code has it: a bundle getMatchingAddresses returns with a record in
\* it has the three keys A, AAAA and TXT; when no object matches any key it
\* returns nil.  The no-op lookup returns nil, a lookup closure may leave keys
\* out, and getMatchingAddresses adds the missing keys to what a lookup returned
\* before it tests it.  A key that is absent reads as the empty list.
C16_KeysOrNil ==
    (EngineRan /\ ~resp.addrs.panicked) =>
        /\ IF HasRecords(resp.addrs) THEN resp.addrs.keys = RecordTypes
                                      ELSE resp.addrs = NilBundle
        /\ \A c \in Calls :
               LET asReturned(raw) ==
                       \/ raw.panicked
                       \/ /\ staticLookup[c.kind] = "noop" => raw = NilBundle
                          /\ \A k \in RecordTypes \ raw.keys : raw[k] = <<>>
                          /\ c.out = EnsureKeys(raw)
               IN  /\ c.out.panicked \/ c.out.keys = RecordTypes
                   /\ asReturned(Lookup(c.kind, c.keys))

\* nothing matches: a no-op lookup and a lookup closure ran, the closure returned
\* a map without keys, and the engine returned nil
C16_Witness ==
    /\ EngineRan
    /\ resp.addrs = NilBundle
    /\ \E c \in Calls : staticLookup[c.kind] = "noop"
    /\ \E c \in Calls :
           LET bare(raw) == ~raw.isNil /\ ~raw.panicked /\ raw.keys = {}
           IN  bare(Lookup(c.kind, c.keys))

\* the key set of a name in a zone as the description gives it: [stripped] when
\* the zone-stripped name is empty or equals stripped, else [stripped, zoneless]
KeySetOf(stripped, zoneless) ==
    IF zoneless = <<>> \/ zoneless = stripped THEN <<stripped>>
    ELSE <<stripped, zoneless>>

\* the zone-stripped name with its leftmost label replaced by "*"
WildcardZoneless(zoneless) == Join(<<<<"*">>>> \o Tail(Split(zoneless)))

\* C17: the key sets of a question are the specific key set followed by the
\* wildcard key set, derived the same way from the name with its leftmost
\* zoneless label replaced by "*"; for the zone apex, whose zone-stripped name
\* has no labels, the specific key set is the only one, and no lookup of the
\* query runs under a wildcard key set.
C17_KeySets ==
    EngineRan =>
        LET zoneless == stripDomain(resp.qname, resp.zone)
            sets == getQueryIndexKeySets(resp.qname, resp.zone)
            wild == WildcardZoneless(zoneless)
        IN  /\ sets[1] = KeySetOf(stripClosingDot(resp.qname), zoneless)
            /\ IF zoneless = <<>>
               THEN Len(sets) = 1 /\ \A c \in Calls : c.set = 1
               ELSE /\ Len(sets) = 2
                    /\ sets[2] = KeySetOf(stripClosingDot(wild \o <<".">> \o resp.zone),
                                          wild)

\* an apex query answered with the addresses of an object found under a wildcard
\* key
C17_ApexUnderWildcard ==
    /\ EngineRan
    /\ stripDomain(resp.qname, resp.zone) = <<>>
    /\ HasRecords(resp.addrs)
    /\ LastCall.set = 2

(***************************************************************************)
(* Properties of the TXT record builder, under SpecSplit.                  *)
(***************************************************************************)
RECURSIVE Concat(_)
Concat(chunks) == IF Len(chunks) = 0 THEN <<>> ELSE chunks[1] \o Concat(Tail(chunks))

\* C10: the chunks of every TXT record are at most 255 bytes long each, their
\* concatenation in order is the value, a value shorter than 255 bytes is one
\* chunk, and the records carry the chunks split255 returns, one record for each
\* distinct value.
C10_Chunks ==
    txtOut.done =>
        /\ \A r \in 1..Len(txtOut.records) :
              LET chunks == txtOut.records[r].data
              IN  /\ \A c \in 1..Len(chunks) : Len(chunks[c]) <= 255
                  /\ Concat(chunks) \in Range(txtIn)
                  /\ Len(Concat(chunks)) < 255 => chunks = <<Concat(chunks)>>
                  /\ chunks = split255(Concat(chunks))
        /\ {Concat(txtOut.records[r].data) : r \in 1..Len(txtOut.records)} = Range(txtIn)
        /\ Len(txtOut.records) = Cardinality(Range(txtIn))

\* a value of more than 510 bytes carried as three chunks
C10_Witness ==
    /\ txtOut.done
    /\ Len(txtIn[1]) > 510
    /\ Len(txtOut.records[1].data) = 3
    /\ Len(txtOut.records[1].data[3]) > 0

(***************************************************************************)
(* Properties of the lookup closures and of the index functions, under     *)
(* SpecIndex.  A call of resp.calls holds the keys a lookup was given and  *)
(* the bundle it returned.                                                 *)
(***************************************************************************)
Addresses(b) == Range(b.A) \cup Range(b.AAAA)

\* the cached Services filed under one of the keys of a lookup
MatchedServices(keys) ==
    {id \in store["Service"] :
        \E i \in 1..Len(keys) :
            ToLower(keys[i]) \in Range(serviceHostnameIndexFunc(Objects[id]))}

HasExternalIPs(id) == Len(Objects[id].externalIPs) > 0

\* the address texts of status.loadBalancer.ingress of a Service
StatusAddrs(id) == {Objects[id].lb[i].ip : i \in 1..Len(Objects[id].lb)} \ {""}

\* the externalIPs of a Service that parse as IPv4, and as IPv6 in canonical form
ExternalV4(id) == SelectSeq(Objects[id].externalIPs, LAMBDA t : t \in IPv4Texts)
ExternalV6(id) ==
    LET v6 == SelectSeq(Objects[id].externalIPs, LAMBDA t : t \in DOMAIN IPv6Canonical)
    IN  [i \in 1..Len(v6) |-> IPv6Canonical[v6[i]]]

\* C11: a matched Service with a non-empty spec.externalIPs contributes only its
\* parseable externalIPs, IPv4 to A and IPv6 to AAAA, and never an address of its
\* status.loadBalancer.ingress, also when none of its externalIPs parses.
C11_ExternalIPs ==
    \A c \in Calls :
        c.kind = "Service" =>
            \A id \in MatchedServices(c.keys) :
                HasExternalIPs(id) =>
                    /\ \A a \in StatusAddrs(id) \cap Addresses(c.out) :
                          \E other \in MatchedServices(c.keys) \ {id} :
                              ~HasExternalIPs(other) /\ a \in StatusAddrs(other)
                    /\ MatchedServices(c.keys) = {id} =>
                          /\ c.out.A = ExternalV4(id)
                          /\ c.out.AAAA = ExternalV6(id)
                          /\ c.out.TXT = <<>>

\* a Service none of whose externalIPs parses was matched, its status holding an
\* address: the lookup returned nothing
C11_Witness ==
    \E c \in Calls :
        /\ c.kind = "Service"
        /\ \E id \in MatchedServices(c.keys) :
              /\ HasExternalIPs(id)
              /\ ExternalV4(id) = <<>> /\ ExternalV6(id) = <<>>
              /\ StatusAddrs(id) \cap IPv4Texts # {}
        /\ Addresses(c.out) = {}

\* the gateway key of one parentRef taken on its own: its namespace override when
\* it has one, the namespace of the route otherwise
RefKey(gwRef, routeNs) ==
    <<IF gwRef.namespace.set THEN gwRef.namespace.val ELSE routeNs, gwRef.name>>

\* the cached Gateways that the parentRefs of a route name, each ref on its own
GatewaysOfRoute(route) ==
    {g \in store["Gateway"] :
        /\ \E i \in 1..Len(route.parentRefs) :
               Contains(ByIndex("Gateway", RefKey(route.parentRefs[i], route.namespace)), g)
        /\ Len(cfg.gatewayClasses) > 0 => Contains(cfg.gatewayClasses, Objects[g].class)}

\* the addresses of the Gateways of the HTTPRoutes filed under keys
RouteAddresses(keys) ==
    UNION {Addresses(fetchGatewayIPs(Objects[g])) :
             g \in UNION {GatewaysOfRoute(Objects[r]) :
                            r \in Range(MatchedObjs("HTTPRoute", keys))}}

\* C18: lookupGateways probes, for every parentRef of a route on its own, the key
\* <ns>/<name> with ns the ref's namespace override when it has one and the
\* route's namespace otherwise, whatever the other parentRefs and their order:
\* an HTTPRoute lookup returns the addresses of exactly these Gateways.
C18_RefsIndependent ==
    \A c \in Calls :
        (c.kind = "HTTPRoute" /\ ~c.out.panicked) =>
            Addresses(c.out) = RouteAddresses(c.keys)

\* a route naming a Gateway of another namespace first and a Gateway of its own
\* namespace second was matched while the second Gateway was cached, and the
\* lookup returned nothing
C18_OverrideSticks ==
    \E c \in Calls :
        /\ c.kind = "HTTPRoute"
        /\ "rt_two" \in Range(MatchedObjs("HTTPRoute", c.keys))
        /\ "gw1" \in store["Gateway"]
        /\ Addresses(c.out) = {}

\* the index keys of a Service as the description gives them: the hostname
\* annotation if it is a valid domain, else the valid entries of the external-dns
\* annotation, else <name>.<namespace>; annotation values lower-cased
ServiceKeysAsDescribed(service) ==
    LET keys(a1, a2) ==
            IF a1.exists /\ checkDomainValid(a1.val) THEN <<a1.val>>
            ELSE IF a2.exists
            THEN SelectSeq(splitHostnameAnnotation(a2.val), checkDomainValid)
            ELSE <<service.name \o <<".">> \o service.namespace>>
    IN  IF service.type # "LoadBalancer" THEN <<>>
        ELSE keys(checkServiceAnnotation(hostnameAnnotationKey, service),
                  checkServiceAnnotation(externalDnsHostnameAnnotationKey, service))

\* C19: a cached Service that is not of type LoadBalancer is filed under no key; a
\* LoadBalancer Service is filed under its lower-cased coredns.io/hostname
\* annotation if that is a valid domain, else under the valid entries of its
\* comma-split, space-stripped external-dns annotation, else under
\* <name>.<namespace>.
C19_ServiceKeys ==
    \A id \in store["Service"] :
        serviceHostnameIndexFunc(Objects[id]) = ServiceKeysAsDescribed(Objects[id])

\* a LoadBalancer Service with an invalid coredns.io/hostname annotation and a
\* valid external-dns annotation is cached, a Service lookup ran under the
\* external-dns name and returned nothing
C19_InvalidAnnotation ==
    \E c \in Calls :
        /\ c.kind = "Service"
        /\ store["Service"] = {"svc_inv"}
        /\ Contains(c.keys, <<"b", ".", "z">>)
        /\ Addresses(c.out) = {}

\* the kinds that have a hostname index
HostnameKinds == {"Ingress", "Service", "HTTPRoute", "TLSRoute", "GRPCRoute", "DNSEndpoint"}

\* the keys the cached object id is filed under
StoredKeys(id) == Range(IndexFunc(Objects[id]))

\* C20: after any sequence of informer events every key of a hostname index is
\* lower-case, and a lookup, which lower-cases its keys, finds every cached
\* object of its kind one of whose declared hostnames equals one of its keys up
\* to letter case.
C20_LowercaseKeys ==
    /\ \A kind \in HostnameKinds : \A id \in store[kind] :
           \A key \in StoredKeys(id) : key = ToLower(key)
    /\ \A c \in Calls : \A id \in store[c.kind] :
           (\E key \in StoredKeys(id) :
                \E n \in 1..Len(c.keys) : ToLower(key) = ToLower(c.keys[n]))
               => Contains(MatchedObjs(c.kind, c.keys), id)

\* a DNSEndpoint declared with the name "B.z" is cached, a DNSEndpoint lookup ran
\* under the key "b.z" and returned nothing
C20_UpperCaseLost ==
    \E c \in Calls :
        /\ c.kind = "DNSEndpoint"
        /\ "ep_up" \in store["DNSEndpoint"]
        /\ Contains(c.keys, <<"b", ".", "z">>)
        /\ Addresses(c.out) = {}

\* the endpoints of the DNSEndpoint objects objs, in order
RECURSIVE EndpointsOf(_)
EndpointsOf(objs) ==
    IF Len(objs) = 0 THEN <<>>
    ELSE Objects[objs[1]].endpoints \o EndpointsOf(Tail(objs))

\* what one endpoint gives to the list of rtype as the description has it: nothing
\* unless it is of that record type and its dnsName is one of the keys; the
\* targets that parse as IPv4 for A, as IPv6 for AAAA, every target for TXT
DescribedTargets(endpoint, keys, rtype) ==
    LET counts(target) ==
            IF rtype = "A" THEN ParseAddr(target).ok /\ ParseAddr(target).is4
            ELSE IF rtype = "AAAA" THEN ParseAddr(target).ok /\ ParseAddr(target).is6
            ELSE TRUE
        kept == SelectSeq(endpoint.targets, counts)
    IN  IF endpoint.recordType # rtype
           \/ ~\E n \in 1..Len(keys) : endpoint.dnsName = ToLower(keys[n])
        THEN <<>>
        ELSE IF rtype = "TXT" THEN kept
        ELSE [i \in 1..Len(kept) |-> ParseAddr(kept[i]).str]

RECURSIVE DescribedList(_, _, _)
DescribedList(endpoints, keys, rtype) ==
    IF Len(endpoints) = 0 THEN <<>>
    ELSE DescribedTargets(endpoints[1], keys, rtype)
             \o DescribedList(Tail(endpoints), keys, rtype)

\* C21: a DNSEndpoint lookup returns, for the objects its keys match, only the
\* targets of the endpoints whose dnsName is one of the keys: IPv4 targets of A
\* endpoints in A, IPv6 targets of AAAA endpoints in AAAA, targets of TXT
\* endpoints unchanged in TXT; an endpoint of another record type or with another
\* dnsName gives nothing.
C21_MatchingEndpoints ==
    \A c \in Calls :
        c.kind = "DNSEndpoint" =>
            LET same(endpoints) ==
                    \A rtype \in RecordTypes :
                        c.out[rtype] = DescribedList(endpoints, c.keys, rtype)
            IN  same(EndpointsOf(MatchedObjs("DNSEndpoint", c.keys)))

\* a DNSEndpoint lookup under "o.z" matched an object that also has endpoints
\* named "a.z", and returned their AAAA and TXT targets
C21_OtherNameAnswers ==
    \E c \in Calls :
        /\ c.kind = "DNSEndpoint"
        /\ c.keys = <<<<"o", ".", "z">>, <<"o">>>>
        /\ store["DNSEndpoint"] = {"ep_multi"}
        /\ c.out.AAAA = <<"fd00::6">>
        /\ c.out.TXT = <<<<"c", "h">>>>

\* what the extractor of its kind yields for the one object id
ExtractorResult(id) ==
    LET of(o) ==
            CASE o.kind = "Service" ->
                   IF Len(o.externalIPs) > 0 THEN AddAddrs(MakeBundle, o.externalIPs)
                   ELSE fetchServiceLoadBalancerIPs(o.lb)
              [] o.kind = "Ingress" -> fetchIngressLoadBalancerIPs(o.lb)
              [] o.kind = "DNSEndpoint" -> EndpointLoop(MakeBundle, o.endpoints)
              [] o.kind \in {"HTTPRoute", "TLSRoute", "GRPCRoute"} ->
                   lookupGateways(o.parentRefs, o.namespace, cfg.gatewayClasses)
    IN  of(Objects[id])

\* the lists of rtype of the objects objs, concatenated in order
RECURSIVE ConcatOf(_, _)
ConcatOf(objs, rtype) ==
    IF Len(objs) = 0 THEN <<>>
    ELSE ExtractorResult(objs[1])[rtype] \o ConcatOf(Tail(objs), rtype)

\* C23: the bundle a per-kind lookup returns for a key list is, for every record
\* type, the concatenation in match order of the extractor results of every
\* object matched by any of the keys; a Service lookup includes the addresses of
\* every matched Service, whether it uses externalIPs or status addresses.
C23_Concatenation ==
    \A c \in Calls :
        c.kind \in {"HTTPRoute", "Service", "DNSEndpoint"} =>
            LET same(objs) == \A rtype \in RecordTypes : c.out[rtype] = ConcatOf(objs, rtype)
            IN  same(MatchedObjs(c.kind, c.keys))

\* a Service with externalIPs was matched before a Service with status addresses,
\* and the lookup returned the externalIPs alone
C23_LaterServiceDropped ==
    \E c \in Calls :
        /\ c.kind = "Service"
        /\ MatchedObjs("Service", c.keys) = <<"svc_azx", "svc_a">>
        /\ c.out.A = <<"10.0.5.8">>
        /\ c.out.AAAA = <<>>

\* C25: the chunks split255 makes of a non-empty value hold no empty chunk, and
\* there are ceil(len/255) of them, also when the length is a multiple of 255.
C25_NoEmptyChunk ==
    txtOut.done =>
        \A r \in 1..Len(txtOut.records) :
            LET counted(chunks, n) ==
                    n > 0 => /\ \A c \in 1..Len(chunks) : Len(chunks[c]) > 0
                             /\ Len(chunks) = (n + 254) \div 255
            IN  counted(txtOut.records[r].data, Len(Concat(txtOut.records[r].data)))

\* a value of exactly 255 bytes carried as two chunks, the second one empty
C25_EmptyChunk ==
    /\ txtOut.done
    /\ \E r \in 1..Len(txtOut.records) :
           /\ Len(txtOut.records[r].data) = 2
           /\ Len(txtOut.records[r].data[1]) = 255
           /\ txtOut.records[r].data[2] = <<>>

(***************************************************************************)
(* Properties of two Gateways of one process, under SpecPeers.             *)
(***************************************************************************)
\* C27: the registries of two Gateways made by newGateway are independent: a step
\* of the start-up of one of them leaves the lookup of every kind of the
\* registry of the other one as it was, whatever the order of the start-ups.
C27_IndependentRegistries ==
    [][/\ peer'.phase # peer.phase =>
             \A k \in Range(Resources) : staticLookup'[k] = staticLookup[k]
       /\ phase' # phase =>
             \A k \in Range(peer.Resources) : staticLookup'[k] = staticLookup[k]]_vars

\* the first Gateway has synced with an Ingress for the name in its cache, the
\* second Gateway has started since, and the query for the name finds nothing
C27_AnsweredByPeer ==
    /\ Served /\ hasSynced
    /\ "ing_a" \in store["Ingress"]
    /\ resp.qname = <<"a", ".", "z", ".">> /\ resp.qtype = "A"
    /\ staticLookup["Ingress"] = "peer"
    /\ NoRecords(resp.addrs)

(***************************************************************************)
(* Properties of the shutdown, under SpecStop.                             *)
(***************************************************************************)
\* C24: once the context given to RunKubeController is cancelled, run() gets to
\* its return, which closes the stop channel of every informer it started: with
\* the context cancelled, run() has returned or has a step left to take.
C24_RunReturns ==
    phase = "cancelled" => (StopChClosed \/ ENABLED RunStep)

\* the context is cancelled, the informers were started, and run() sits in its
\* receive from the stop channel, which is open
C24_BlockedAfterCancel ==
    /\ phase = "cancelled"
    /\ runPc = "blocked"
    /\ controllers # {}
    /\ ~StopChClosed

(***************************************************************************)
(* Properties of the lookups over objects with unset fields, under         *)
(* SpecUnset.                                                              *)
(***************************************************************************)
\* C22: no content of a cluster object makes a query crash: no lookup of a served
\* query dereferences an unset field, and the query ends in a reply, in SERVFAIL
\* or at the next handler.
C22_NoCrash ==
    Served =>
        /\ resp.kind # "panic"
        /\ \A c \in Calls : ~c.out.panicked

\* with the filter on ingress classes set, an Ingress of an admitted class and an
\* Ingress without class are both filed under the name asked for, and the query
\* crashed in the Ingress lookup
C22_UnsetClassCrashes ==
    /\ Served
    /\ resp.kind = "panic"
    /\ store["Ingress"] = {"ing_a", "ing_nocls"}
    /\ LastCall.kind = "Ingress"

(***************************************************************************)
(* Properties of the plugin's own address, under SpecUnset.                *)
(***************************************************************************)
\* the cached objects filed under the apex label
ApexLabelObjs ==
    {id \in UNION {store[k] : k \in HostnameKinds} : ToLower(cfg.apex) \in StoredKeys(id)}

\* C26: with no second NS label configured, the records SelfAddress adds to an
\* apex NS response are all named <apex-label>.<zone> and hold addresses of
\* objects filed under the apex label; an object filed under another key, such
\* as an Ingress with a rule without host, gives none.
C26_OnlyApexLabel ==
    (SwitchAnswered /\ resp.qtype = "NS" /\ AtApex /\ cfg.secondNS = <<>>) =>
        \A i \in 1..Len(resp.msg.Extra) :
            /\ ToLower(resp.msg.Extra[i].name)
                  = ToLower(cfg.apex \o <<".">> \o resp.zone)
            /\ \E id \in ApexLabelObjs :
                  resp.msg.Extra[i].data \in Addresses(ExtractorResult(id))

\* an apex NS response whose Extra section holds the address of an Ingress with a
\* rule without host, under the name ".<zone>"
C26_EmptyKeyAnswers ==
    /\ SwitchAnswered /\ resp.qtype = "NS" /\ AtApex /\ cfg.secondNS = <<>>
    /\ store["Ingress"] = {"ing_nohost"}
    /\ \E i \in 1..Len(resp.msg.Extra) :
           /\ resp.msg.Extra[i].name = <<".">> \o resp.zone
           /\ resp.msg.Extra[i].data = "10.0.5.9"

=============================================================================
